---- MODULE Spec2Model ----
(***************************************************************************)
(* Model of the E.E encryption-job service: the job lifecycle checks of    *)
(* the domain package, the batch orchestrator (BatchService), the query    *)
(* engine (EncryptionService.ListJobs) and the in-memory job store.        *)
(***************************************************************************)
EXTENDS Integers, Sequences, FiniteSets, TLC

VARIABLES
    jobs,          \* MemoryRepository.jobs : job ID -> EncryptionJob
    history,       \* MemoryRepository.history : job ID -> sequence of entries
    batches,       \* keys "batch:<id>" of the batch store : batch ID -> JSON document
    jobSeq,        \* number of uuid.New() calls made by StartEncryption
    batchSeq,      \* number of uuid.New() calls made by generateBatchID
    now,           \* time.Now().Unix()
    batch,         \* the ProcessBatch invocation in flight (its locals and position)
    ctxCancelled,  \* the caller's context of that invocation is cancelled
    resp,          \* the last response returned to a caller
    valOut,        \* the last validateBatchOperation call on its own: input, result
    listOut,       \* the last ListJobs call: arguments, store order, result
    repoOut,       \* the last call made on a store on its own: arguments, result
    redis,         \* RedisJobRepository: the keys "job:<id>" and "job_history:<id>"
    mu,            \* MemoryRepository.mu : the holders and waiters of the RWMutex
    memCalls       \* the concurrent calls on MemoryRepository : goroutine -> position

vars == <<jobs, history, batches, jobSeq, batchSeq, now, batch, ctxCancelled,
          resp, valOut, listOut, repoOut, redis, mu, memCalls>>

----------------------------------------------------------------------------
(* Bounds *)

MaxJobs == 2        \* uuids available to StartEncryption
MaxBatchLen == 3    \* longest job_ids / source_urls list of a dispatched batch
MaxValLen == 2      \* longest list handed to validateBatchOperation alone
MaxTime == 2        \* last clock value
MaxBatches == 2     \* ProcessBatch invocations of one behaviour of the batch-store scenario
MaxHistory == 2     \* longest history of one job in the job-store scenario
IntBits == 5        \* width of a Go int in the model (64 in the build)
MaxGoroutines == 3  \* goroutines calling the in-memory store at once

\* Go's nil error, and an untyped error made by fmt.Errorf
NoErr == [type |-> "nil"]

\* Is names the sentinel error that errors.Is finds in the chain ("" when none)
Errorf(msg) == [type |-> "error", Message |-> msg, Is |-> ""]

ErrJobNotFound == [type |-> "error", Message |-> "job not found", Is |-> "ErrJobNotFound"]

ErrorsIs(err, target) == err.type = "error" /\ err.Is = target.Is

\* fmt.Errorf with a %w verb: an untyped error that wraps err
Wrapf(msg, err) == [type |-> "wrapped", Message |-> msg, cause |-> err]

\* errors.As(err, &jobStateErr): the JobStateError of the chain, nil when it has none
RECURSIVE ErrorsAsJobStateError(_)
ErrorsAsJobStateError(err) ==
    IF err.type = "JobStateError" THEN err
    ELSE IF err.type = "wrapped" THEN ErrorsAsJobStateError(err.cause)
    ELSE NoErr

\* err.Error(): the text of an error, as the sequence of its parts
RECURSIVE ErrorString(_)
ErrorString(err) ==
    CASE err.type = "JobStateError" ->
            <<"invalid job state transition: cannot", err.Action, "job", err.JobID,
              "(current state:", err.CurrentState, ") -", err.Message>>
      [] err.type = "wrapped" -> <<err.Message, ":">> \o ErrorString(err.cause)
      [] err.type = "error" -> <<err.Message>>
      [] OTHER -> <<>>

\* a nil *EncryptionJob
NoJob == [ID |-> "", SourceURL |-> "", Status |-> "nil", Progress |-> 0,
          CreatedAt |-> 0, UpdatedAt |-> 0]

----------------------------------------------------------------------------
(* Strings.  A Go string is its byte sequence; Bytes gives the bytes of     *)
(* every string the model uses, so that comparison, lower-casing and        *)
(* substring search are computed on bytes as the Go library does.           *)

Bytes(s) ==
    CASE s = "" -> <<>>
      [] s = "a" -> <<97>>
      [] s = "A" -> <<65>>
      [] s = "b" -> <<98>>
      [] s = "ab" -> <<97, 98>>
      [] s = "j1" -> <<106, 49>>
      [] s = "J2" -> <<74, 50>>
      [] s = "paused" -> <<112, 97, 117, 115, 101, 100>>
      [] s = "j2" -> <<106, 50>>
      [] s = "j3" -> <<106, 51>>
      [] s = "j4" -> <<106, 52>>
      [] s = "zz" -> <<122, 122>>
      [] s = "N/A" -> <<78, 47, 65>>
      [] s = "PENDING" -> <<80, 69, 78, 68, 73, 78, 71>>
      [] s = "IN_PROGRESS" -> <<73, 78, 95, 80, 82, 79, 71, 82, 69, 83, 83>>
      [] s = "PAUSED" -> <<80, 65, 85, 83, 69, 68>>
      [] s = "COMPLETED" -> <<67, 79, 77, 80, 76, 69, 84, 69, 68>>
      [] s = "FAILED" -> <<70, 65, 73, 76, 69, 68>>
      [] s = "created_at" -> <<99, 114, 101, 97, 116, 101, 100, 95, 97, 116>>
      [] s = "updated_at" -> <<117, 112, 100, 97, 116, 101, 100, 95, 97, 116>>
      [] s = "progress" -> <<112, 114, 111, 103, 114, 101, 115, 115>>
      [] s = "status" -> <<115, 116, 97, 116, 117, 115>>
      [] s = "Status" -> <<83, 116, 97, 116, 117, 115>>
      [] s = "source_url" -> <<115, 111, 117, 114, 99, 101, 95, 117, 114, 108>>
      [] s = "id" -> <<105, 100>>
      [] s = "bogus" -> <<98, 111, 103, 117, 115>>
      [] s = "asc" -> <<97, 115, 99>>
      [] s = "desc" -> <<100, 101, 115, 99>>
      [] s = "DESC" -> <<68, 69, 83, 67>>
      [] s = "up" -> <<117, 112>>

\* strings.ToLower on bytes (ASCII letters)
ToLower(bs) == [i \in 1..Len(bs) |-> IF bs[i] >= 65 /\ bs[i] <= 90 THEN bs[i] + 32 ELSE bs[i]]

RECURSIVE CompareBytes(_, _)
\* strings.Compare : -1, 0, +1 by lexicographic byte order
CompareBytes(a, b) ==
    IF a = <<>> /\ b = <<>> THEN 0
    ELSE IF a = <<>> THEN -1
    ELSE IF b = <<>> THEN 1
    ELSE IF Head(a) < Head(b) THEN -1
    ELSE IF Head(a) > Head(b) THEN 1
    ELSE CompareBytes(Tail(a), Tail(b))

\* strings.Contains
Contains(s, sub) ==
    LET a == Bytes(s)
        b == Bytes(sub)
    IN \E i \in 0..Len(a) :
          /\ i + Len(b) <= Len(a)
          /\ \A k \in 1..Len(b) : a[i + k] = b[k]

----------------------------------------------------------------------------
(* domain: statuses, jobs, lifecycle checks *)

StatusPending == "PENDING"
StatusProgress == "IN_PROGRESS"
StatusPaused == "PAUSED"
StatusCompleted == "COMPLETED"
StatusFailed == "FAILED"

Statuses == {StatusPending, StatusProgress, StatusPaused, StatusCompleted, StatusFailed}

BatchActionStart == "start"
BatchActionPause == "pause"
BatchActionResume == "resume"
BatchActionStop == "stop"
BatchActionRetry == "retry"

BatchActions == {BatchActionStart, BatchActionPause, BatchActionResume,
                 BatchActionStop, BatchActionRetry}

\* the typed state error
NewJobStateError(jobID, currentState, action, message) ==
    [type |-> "JobStateError", JobID |-> jobID, CurrentState |-> currentState,
     Action |-> action, Message |-> message]

IsJobStateError(err) == err.type = "JobStateError"

\* faulty variant of CanPause: a pending job may be paused
CanPauseAcceptsPending(j) ==
    CASE j.Status = StatusPaused ->
            NewJobStateError(j.ID, j.Status, "pause", "job is already paused")
      [] j.Status = StatusCompleted ->
            NewJobStateError(j.ID, j.Status, "pause", "cannot pause a completed job")
      [] j.Status = StatusFailed ->
            NewJobStateError(j.ID, j.Status, "pause", "cannot pause a failed job")
      [] OTHER -> NoErr

CanPause(j) ==
    CASE j.Status = StatusPaused ->
            NewJobStateError(j.ID, j.Status, "pause", "job is already paused")
      [] j.Status = StatusCompleted ->
            NewJobStateError(j.ID, j.Status, "pause", "cannot pause a completed job")
      [] j.Status = StatusFailed ->
            NewJobStateError(j.ID, j.Status, "pause", "cannot pause a failed job")
      [] j.Status = StatusPending ->
            NewJobStateError(j.ID, j.Status, "pause", "cannot pause a pending job")
      [] OTHER -> NoErr

\* faulty variant of CanResume: a running job may be resumed
CanResumeAcceptsRunning(j) ==
    IF j.Status # StatusPaused /\ j.Status # StatusProgress
    THEN NewJobStateError(j.ID, j.Status, "resume", "can only resume paused jobs")
    ELSE NoErr

CanResume(j) ==
    IF j.Status # StatusPaused
    THEN NewJobStateError(j.ID, j.Status, "resume", "can only resume paused jobs")
    ELSE NoErr

\* faulty variant of CanStop: a failed job may be stopped again
CanStopAcceptsFailed(j) ==
    CASE j.Status = StatusCompleted ->
            NewJobStateError(j.ID, j.Status, "stop", "job is already completed")
      [] OTHER -> NoErr

CanStop(j) ==
    CASE j.Status = StatusCompleted ->
            NewJobStateError(j.ID, j.Status, "stop", "job is already completed")
      [] j.Status = StatusFailed ->
            NewJobStateError(j.ID, j.Status, "stop", "job is already stopped")
      [] OTHER -> NoErr

IsTerminal(j) == j.Status = StatusCompleted \/ j.Status = StatusFailed

----------------------------------------------------------------------------
(* The in-memory job store *)

\* uuid.New().String() of the n-th job created
JobUUID(n) == CASE n = 1 -> "j1" [] n = 2 -> "j2" [] n = 3 -> "j3" [] OTHER -> "j4"

\* an ID no uuid.New() call ever returns
GhostID == "zz"

\* generateBatchID of the n-th dispatched batch
BatchUUID(n) == CASE n = 1 -> "b1" [] n = 2 -> "b2" [] OTHER -> "b3"

\* Get returns (nil, nil) for an absent key
MemGet(js, jobID) == IF jobID \in DOMAIN js THEN js[jobID] ELSE NoJob

MemCreate(js, job) ==
    IF job.ID \in DOMAIN js
    THEN [err |-> Errorf("job already exists with ID"), jobs |-> js]
    ELSE [err |-> NoErr, jobs |-> js @@ (job.ID :> job)]

MemUpdate(js, job) ==
    IF job.ID \notin DOMAIN js
    THEN [err |-> Errorf("job not found with ID"), jobs |-> js]
    ELSE [err |-> NoErr, jobs |-> [js EXCEPT ![job.ID] = job]]

MemAddJobHistory(h, jobID, entry) ==
    IF jobID \in DOMAIN h
    THEN [h EXCEPT ![jobID] = Append(@, entry)]
    ELSE h @@ (jobID :> <<entry>>)

\* JobRepository.AddJobHistory as BatchService calls it; up tells whether the
\* store takes the entry (the in-memory store always does, RPUSH may fail)
AddJobHistory(h, jobID, entry, up) ==
    IF up
    THEN [err |-> NoErr, history |-> MemAddJobHistory(h, jobID, entry)]
    ELSE [err |-> Wrapf("failed to add job history entry", Errorf("redis")), history |-> h]

----------------------------------------------------------------------------
(* EncryptionService: the single-job operations *)

\* faulty variant of StartEncryption: the job is stored without its source
StartEncryptionDropsSource(js, seq, sourceURL, t) ==
    LET job == [ID |-> JobUUID(seq + 1), SourceURL |-> "",
                Status |-> StatusProgress, Progress |-> 0,
                CreatedAt |-> t, UpdatedAt |-> t]
        r == MemCreate(js, job)
    IN IF r.err # NoErr
       THEN [job |-> NoJob, err |-> Errorf("failed to create job"), jobs |-> js]
       ELSE [job |-> job, err |-> NoErr, jobs |-> r.jobs]

StartEncryption(js, seq, sourceURL, t) ==
    LET job == [ID |-> JobUUID(seq + 1), SourceURL |-> sourceURL,
                Status |-> StatusProgress, Progress |-> 0,
                CreatedAt |-> t, UpdatedAt |-> t]
        r == MemCreate(js, job)
    IN IF r.err # NoErr
       THEN [job |-> NoJob, err |-> Errorf("failed to create job"), jobs |-> js]
       ELSE [job |-> job, err |-> NoErr, jobs |-> r.jobs]

GetJobStatus(js, jobID) ==
    LET job == MemGet(js, jobID)
    IN IF job = NoJob
       THEN [job |-> NoJob, err |-> Errorf("job not found")]
       ELSE [job |-> job, err |-> NoErr]

\* PauseJob, ResumeJob and StopJob write a log line and return nil
PauseJob(js, jobID) == [err |-> NoErr, jobs |-> js]

ResumeJob(js, jobID) == [err |-> NoErr, jobs |-> js]

StopJob(js, jobID) == [err |-> NoErr, jobs |-> js]

----------------------------------------------------------------------------
(* BatchService.validateBatchOperation *)

\* Index is the %d of an indexed field name (source_urls[%d]), -1 when the name has none
BatchValidationError(field, message, value) ==
    [Field |-> field, Index |-> -1, Message |-> message, Value |-> value]

\* faulty variant of EmptyEntryErrors: empty elements are not looked for
NoEmptyEntryErrors(list, field, message) == <<>>

\* faulty variant of EmptyEntryErrors: only the first empty element is reported
FirstEmptyEntryError(list, field, message) ==
    LET idx == SelectSeq([i \in 1..Len(list) |-> i], LAMBDA i : list[i] = "")
    IN IF idx = <<>> THEN <<>>
       ELSE <<[Field |-> field, Index |-> idx[1] - 1, Message |-> message, Value |-> ""]>>

\* one error per empty element, tagged with its index (source_urls[i], job_ids[i])
EmptyEntryErrors(list, field, message) ==
    LET idx == SelectSeq([i \in 1..Len(list) |-> i], LAMBDA i : list[i] = "")
    IN [k \in 1..Len(idx) |-> [Field |-> field, Index |-> idx[k] - 1,
                               Message |-> message, Value |-> ""]]

validateBatchOperation(op) ==
    LET actionErrors ==
            IF op.Action = ""
            THEN <<BatchValidationError("action", "action is required", "")>>
            ELSE IF op.Action \notin BatchActions
            THEN <<BatchValidationError("action", "unsupported action", op.Action)>>
            ELSE <<>>
        startErrors ==
            (IF Len(op.SourceURLs) = 0
             THEN <<BatchValidationError("source_urls",
                      "at least one source URL is required for start action", "")>>
             ELSE <<>>)
            \o EmptyEntryErrors(op.SourceURLs, "source_urls", "source URL cannot be empty")
            \o (IF Len(op.JobIDs) > 0
                THEN <<BatchValidationError("job_ids",
                         "job_ids should not be provided for start action", "[job_ids]")>>
                ELSE <<>>)
        otherErrors ==
            (IF Len(op.JobIDs) = 0
             THEN <<BatchValidationError("job_ids",
                      "at least one job ID is required for action", "")>>
             ELSE <<>>)
            \o EmptyEntryErrors(op.JobIDs, "job_ids", "job ID cannot be empty")
            \o (IF Len(op.SourceURLs) > 0
                THEN <<BatchValidationError("source_urls",
                         "source_urls should not be provided for action", "[source_urls]")>>
                ELSE <<>>)
    IN actionErrors \o
       (CASE op.Action = BatchActionStart -> startErrors
          [] op.Action \in {BatchActionPause, BatchActionResume,
                            BatchActionStop, BatchActionRetry} -> otherErrors
          [] OTHER -> <<>>)

----------------------------------------------------------------------------
(* BatchService.ProcessBatch, one loop iteration per step *)

IdleBatch ==
    [pc |-> "idle", op |-> [Action |-> "", JobIDs |-> <<>>, SourceURLs |-> <<>>],
     BatchID |-> "", StartTime |-> 0, Successful |-> <<>>, Failed |-> <<>>,
     totalJobs |-> 0, idx |-> 0, items |-> <<>>]

\* Error holds err.Error(), a string
BatchJobError(jobID, err) == [JobID |-> jobID, Error |-> ErrorString(err)]

\* faulty variant of processJob: a paused job may be retried as well
processJobRetriesPaused(js, seq, jobID, op, index, t) ==
    LET got == GetJobStatus(js, jobID)
        job == got.job
        rejected(err, calls) ==
            [err |-> err, jobs |-> js, seq |-> seq, seen |-> job.Status,
             calls |-> calls, created |-> ""]
        done(r, calls) ==
            [err |-> r.err, jobs |-> r.jobs, seq |-> seq, seen |-> job.Status,
             calls |-> calls, created |-> ""]
        started(r) ==
            [err |-> r.err, jobs |-> r.jobs, seq |-> seq + 1, seen |-> job.Status,
             calls |-> <<"GetJobStatus", "StartEncryption">>, created |-> r.job.ID]
    IN IF got.err # NoErr
       THEN [err |-> Errorf("job not found"), jobs |-> js, seq |-> seq, seen |-> "nil",
             calls |-> <<"GetJobStatus">>, created |-> ""]
       ELSE CASE op.Action = BatchActionStart ->
                   IF index >= Len(op.SourceURLs)
                   THEN rejected(Errorf("source URL index out of range"), <<"GetJobStatus">>)
                   ELSE started(StartEncryption(js, seq, op.SourceURLs[index + 1], t))
              [] op.Action = BatchActionPause ->
                   IF CanPause(job) # NoErr
                   THEN rejected(Wrapf("cannot pause job", CanPause(job)),
                                 <<"GetJobStatus", "CanPause">>)
                   ELSE done(PauseJob(js, jobID), <<"GetJobStatus", "CanPause", "PauseJob">>)
              [] op.Action = BatchActionResume ->
                   IF CanResume(job) # NoErr
                   THEN rejected(Wrapf("cannot resume job", CanResume(job)),
                                 <<"GetJobStatus", "CanResume">>)
                   ELSE done(ResumeJob(js, jobID), <<"GetJobStatus", "CanResume", "ResumeJob">>)
              [] op.Action = BatchActionStop ->
                   IF CanStop(job) # NoErr
                   THEN rejected(Wrapf("cannot stop job", CanStop(job)),
                                 <<"GetJobStatus", "CanStop">>)
                   ELSE done(StopJob(js, jobID), <<"GetJobStatus", "CanStop", "StopJob">>)
              [] op.Action = BatchActionRetry ->
                   IF job.Status # StatusFailed /\ job.Status # StatusPaused
                   THEN rejected(Errorf("job is not in failed state"), <<"GetJobStatus">>)
                   ELSE started(StartEncryption(js, seq, job.SourceURL, t))
              [] OTHER -> rejected(Errorf("unsupported action"), <<"GetJobStatus">>)

\* faulty variant of processJob: a pause is carried out before its check
processJobOperatesFirst(js, seq, jobID, op, index, t) ==
    LET got == GetJobStatus(js, jobID)
        job == got.job
        rejected(err, calls) ==
            [err |-> err, jobs |-> js, seq |-> seq, seen |-> job.Status,
             calls |-> calls, created |-> ""]
        done(r, calls) ==
            [err |-> r.err, jobs |-> r.jobs, seq |-> seq, seen |-> job.Status,
             calls |-> calls, created |-> ""]
        started(r) ==
            [err |-> r.err, jobs |-> r.jobs, seq |-> seq + 1, seen |-> job.Status,
             calls |-> <<"GetJobStatus", "StartEncryption">>, created |-> r.job.ID]
    IN IF got.err # NoErr
       THEN [err |-> Errorf("job not found"), jobs |-> js, seq |-> seq, seen |-> "nil",
             calls |-> <<"GetJobStatus">>, created |-> ""]
       ELSE CASE op.Action = BatchActionStart ->
                   IF index >= Len(op.SourceURLs)
                   THEN rejected(Errorf("source URL index out of range"), <<"GetJobStatus">>)
                   ELSE started(StartEncryption(js, seq, op.SourceURLs[index + 1], t))
              [] op.Action = BatchActionPause ->
                   IF CanPause(job) # NoErr
                   THEN rejected(Wrapf("cannot pause job", CanPause(job)),
                                 <<"GetJobStatus", "PauseJob", "CanPause">>)
                   ELSE done(PauseJob(js, jobID), <<"GetJobStatus", "PauseJob", "CanPause">>)
              [] op.Action = BatchActionResume ->
                   IF CanResume(job) # NoErr
                   THEN rejected(Wrapf("cannot resume job", CanResume(job)),
                                 <<"GetJobStatus", "CanResume">>)
                   ELSE done(ResumeJob(js, jobID), <<"GetJobStatus", "CanResume", "ResumeJob">>)
              [] op.Action = BatchActionStop ->
                   IF CanStop(job) # NoErr
                   THEN rejected(Wrapf("cannot stop job", CanStop(job)),
                                 <<"GetJobStatus", "CanStop">>)
                   ELSE done(StopJob(js, jobID), <<"GetJobStatus", "CanStop", "StopJob">>)
              [] op.Action = BatchActionRetry ->
                   IF job.Status # StatusFailed
                   THEN rejected(Errorf("job is not in failed state"), <<"GetJobStatus">>)
                   ELSE started(StartEncryption(js, seq, job.SourceURL, t))
              [] OTHER -> rejected(Errorf("unsupported action"), <<"GetJobStatus">>)

\* processJob: the calls it makes on the service, its error and the store it leaves
processJob(js, seq, jobID, op, index, t) ==
    LET got == GetJobStatus(js, jobID)
        job == got.job
        rejected(err, calls) ==
            [err |-> err, jobs |-> js, seq |-> seq, seen |-> job.Status,
             calls |-> calls, created |-> ""]
        done(r, calls) ==
            [err |-> r.err, jobs |-> r.jobs, seq |-> seq, seen |-> job.Status,
             calls |-> calls, created |-> ""]
        started(r) ==
            [err |-> r.err, jobs |-> r.jobs, seq |-> seq + 1, seen |-> job.Status,
             calls |-> <<"GetJobStatus", "StartEncryption">>, created |-> r.job.ID]
    IN IF got.err # NoErr
       THEN [err |-> Errorf("job not found"), jobs |-> js, seq |-> seq, seen |-> "nil",
             calls |-> <<"GetJobStatus">>, created |-> ""]
       ELSE CASE op.Action = BatchActionStart ->
                   IF index >= Len(op.SourceURLs)
                   THEN rejected(Errorf("source URL index out of range"), <<"GetJobStatus">>)
                   ELSE started(StartEncryption(js, seq, op.SourceURLs[index + 1], t))
              [] op.Action = BatchActionPause ->
                   IF CanPause(job) # NoErr
                   THEN rejected(Wrapf("cannot pause job", CanPause(job)),
                                 <<"GetJobStatus", "CanPause">>)
                   ELSE done(PauseJob(js, jobID), <<"GetJobStatus", "CanPause", "PauseJob">>)
              [] op.Action = BatchActionResume ->
                   IF CanResume(job) # NoErr
                   THEN rejected(Wrapf("cannot resume job", CanResume(job)),
                                 <<"GetJobStatus", "CanResume">>)
                   ELSE done(ResumeJob(js, jobID), <<"GetJobStatus", "CanResume", "ResumeJob">>)
              [] op.Action = BatchActionStop ->
                   IF CanStop(job) # NoErr
                   THEN rejected(Wrapf("cannot stop job", CanStop(job)),
                                 <<"GetJobStatus", "CanStop">>)
                   ELSE done(StopJob(js, jobID), <<"GetJobStatus", "CanStop", "StopJob">>)
              [] op.Action = BatchActionRetry ->
                   IF job.Status # StatusFailed
                   THEN rejected(Errorf("job is not in failed state"), <<"GetJobStatus">>)
                   ELSE started(StartEncryption(js, seq, job.SourceURL, t))
              [] OTHER -> rejected(Errorf("unsupported action"), <<"GetJobStatus">>)

\* what the loop of ProcessBatch saw and did for one item
ItemRecord(index, item, err, seen, readback, created, calls, cancelled) ==
    [index |-> index, item |-> item, ok |-> err = NoErr, err |-> err, seen |-> seen,
     readback |-> readback, created |-> created, calls |-> calls, cancelled |-> cancelled]

\* faulty variant of AppendSuccessful: the ID is put at the front of the list
PrependSuccessful(b, id, rec) ==
    [b EXCEPT !.Successful = <<id>> \o @, !.idx = @ + 1, !.items = Append(@, rec)]

\* faulty variant of AppendFailed: the loop is left at the first failing item
AppendFailedAndBreak(b, id, err, rec) ==
    [b EXCEPT !.Failed = Append(@, BatchJobError(id, err)), !.idx = b.totalJobs + 1,
              !.items = Append(@, rec)]

\* result.Successful = append(result.Successful, id), and on to the next item
AppendSuccessful(b, id, rec) ==
    [b EXCEPT !.Successful = Append(@, id), !.idx = @ + 1, !.items = Append(@, rec)]

\* result.Failed = append(result.Failed, BatchJobError{...}), and on to the next item
AppendFailed(b, id, err, rec) ==
    [b EXCEPT !.Failed = Append(@, BatchJobError(id, err)), !.idx = @ + 1,
              !.items = Append(@, rec)]

NoResp ==
    [kind |-> "none", id |-> "", code |-> 0, err |-> "", seen |-> "nil",
     readback |-> "nil", errors |-> <<>>]

\* the status of job id as a caller reads it back from the store
ReadBack(js, id) == MemGet(js, id).Status

\* the operations a caller may submit
SourceURLInputs == {"a", "b"}

JobIDInputs == {JobUUID(n) : n \in 1..MaxJobs} \cup {GhostID}

RECURSIVE SeqsUpTo(_, _)
SeqsUpTo(S, n) ==
    IF n = 0 THEN {<<>>}
    ELSE LET shorter == SeqsUpTo(S, n - 1)
         IN shorter \cup {Append(q, x) : q \in {r \in shorter : Len(r) = n - 1}, x \in S}

ValidBatchOps ==
    {[Action |-> BatchActionStart, JobIDs |-> <<>>, SourceURLs |-> u] :
        u \in SeqsUpTo(SourceURLInputs, MaxBatchLen) \ {<<>>}}
    \cup {[Action |-> a, JobIDs |-> ids, SourceURLs |-> <<>>] :
            a \in BatchActions \ {BatchActionStart},
            ids \in SeqsUpTo(JobIDInputs, MaxBatchLen) \ {<<>>}}

\* operations that break one rule or several
InvalidBatchOps ==
    {[Action |-> a, JobIDs |-> ids, SourceURLs |-> u] :
        a \in {BatchActionStart, BatchActionPause, "", "bogus"},
        ids \in {<<>>, <<"j1">>, <<"j1", "">>},
        u \in {<<>>, <<"a">>}} \ ValidBatchOps

BatchOps == ValidBatchOps \cup InvalidBatchOps

\* faulty variant of ProcessBatchBegin: a rejected operation is stored as a batch result
ProcessBatchBeginStoresRejected(op) ==
    /\ batch.pc = "idle"
    /\ LET errors == validateBatchOperation(op)
       IN IF Len(errors) > 0
          THEN /\ batches' = batches @@ ("rejected" :> errors)
               /\ UNCHANGED <<jobs, history, jobSeq, batchSeq, now, batch, ctxCancelled>>
               /\ resp' = [NoResp EXCEPT !.kind = "batch", !.err = "validation failed",
                                         !.errors = errors]
          ELSE /\ batchSeq' = batchSeq + 1
               /\ batch' = [pc |-> "items", op |-> op, BatchID |-> BatchUUID(batchSeq + 1),
                            StartTime |-> now, Successful |-> <<>>, Failed |-> <<>>,
                            totalJobs |-> IF op.Action = BatchActionStart
                                          THEN Len(op.SourceURLs) ELSE Len(op.JobIDs),
                            idx |-> 1, items |-> <<>>]
               /\ ctxCancelled' = FALSE
               /\ resp' = NoResp
               /\ UNCHANGED <<jobs, history, batches, jobSeq, now>>
    /\ UNCHANGED <<valOut, listOut, repoOut, redis, mu, memCalls>>

\* faulty variant of ProcessBatchBegin: the operation is dispatched unvalidated
ProcessBatchBeginSkipsValidation(op) ==
    /\ batch.pc = "idle"
    /\ batchSeq' = batchSeq + 1
    /\ batch' = [pc |-> "items", op |-> op, BatchID |-> BatchUUID(batchSeq + 1),
                 StartTime |-> now, Successful |-> <<>>, Failed |-> <<>>,
                 totalJobs |-> IF op.Action = BatchActionStart
                               THEN Len(op.SourceURLs) ELSE Len(op.JobIDs),
                 idx |-> 1, items |-> <<>>]
    /\ ctxCancelled' = FALSE
    /\ resp' = NoResp
    /\ UNCHANGED <<jobs, history, batches, jobSeq, now>>
    /\ UNCHANGED <<valOut, listOut, repoOut, redis, mu, memCalls>>

ProcessBatchBegin(op) ==
    /\ batch.pc = "idle"
    /\ LET errors == validateBatchOperation(op)
       IN IF Len(errors) > 0
          THEN /\ UNCHANGED <<jobs, history, batches, jobSeq, batchSeq, now, batch,
                              ctxCancelled>>
               /\ resp' = [NoResp EXCEPT !.kind = "batch", !.err = "validation failed",
                                         !.errors = errors]
          ELSE /\ batchSeq' = batchSeq + 1
               /\ batch' = [pc |-> "items", op |-> op, BatchID |-> BatchUUID(batchSeq + 1),
                            StartTime |-> now, Successful |-> <<>>, Failed |-> <<>>,
                            totalJobs |-> IF op.Action = BatchActionStart
                                          THEN Len(op.SourceURLs) ELSE Len(op.JobIDs),
                            idx |-> 1, items |-> <<>>]
               /\ ctxCancelled' = FALSE
               /\ resp' = NoResp
               /\ UNCHANGED <<jobs, history, batches, jobSeq, now>>
    /\ UNCHANGED <<valOut, listOut, repoOut, redis, mu, memCalls>>

\* faulty variant of ProcessBatchStartItem: an item whose history entry is not taken
\* counts as failed
ProcessBatchStartItemHistoryFatal ==
    /\ batch.pc = "items"
    /\ batch.op.Action = BatchActionStart
    /\ batch.idx <= Len(batch.op.SourceURLs)
    /\ jobSeq < MaxJobs
    /\ LET sourceURL == batch.op.SourceURLs[batch.idx]
           r == StartEncryption(jobs, jobSeq, sourceURL, now)
           entry == [Timestamp |-> now, Action |-> batch.op.Action,
                     BatchID |-> batch.BatchID, Status |-> "created",
                     batch_size |-> batch.totalJobs]
       IN /\ jobSeq' = jobSeq + 1
          /\ jobs' = r.jobs
          /\ IF r.err # NoErr
             THEN /\ history' = history
                  /\ batch' = AppendFailed(batch, "N/A", r.err,
                                  ItemRecord(batch.idx, sourceURL, r.err, "nil", "nil", "",
                                             <<"StartEncryption">>, ctxCancelled))
             ELSE \E up \in BOOLEAN :
                     LET h == AddJobHistory(history, r.job.ID, entry, up)
                         rec == ItemRecord(batch.idx, sourceURL, h.err, "nil",
                                           ReadBack(r.jobs, r.job.ID), r.job.ID,
                                           <<"StartEncryption", "AddJobHistory">>,
                                           ctxCancelled)
                     IN /\ history' = h.history
                        /\ batch' = IF h.err # NoErr
                                     THEN AppendFailed(batch, r.job.ID, h.err, rec)
                                     ELSE AppendSuccessful(batch, r.job.ID, rec)
    /\ UNCHANGED <<batches, batchSeq, now, ctxCancelled, resp, valOut, listOut, repoOut, redis,
                   mu, memCalls>>

\* one iteration of the loop over source_urls
ProcessBatchStartItem ==
    /\ batch.pc = "items"
    /\ batch.op.Action = BatchActionStart
    /\ batch.idx <= Len(batch.op.SourceURLs)
    /\ jobSeq < MaxJobs
    /\ LET sourceURL == batch.op.SourceURLs[batch.idx]
           r == StartEncryption(jobs, jobSeq, sourceURL, now)
           entry == [Timestamp |-> now, Action |-> batch.op.Action,
                     BatchID |-> batch.BatchID, Status |-> "created",
                     batch_size |-> batch.totalJobs]
       IN /\ jobSeq' = jobSeq + 1
          /\ jobs' = r.jobs
          /\ IF r.err # NoErr
             THEN /\ history' = history
                  /\ batch' = AppendFailed(batch, "N/A", r.err,
                                  ItemRecord(batch.idx, sourceURL, r.err, "nil", "nil", "",
                                             <<"StartEncryption">>, ctxCancelled))
             ELSE /\ \E up \in BOOLEAN :
                        history' = AddJobHistory(history, r.job.ID, entry, up).history
                  /\ batch' = AppendSuccessful(batch, r.job.ID,
                                  ItemRecord(batch.idx, sourceURL, NoErr, "nil",
                                             ReadBack(r.jobs, r.job.ID), r.job.ID,
                                             <<"StartEncryption", "AddJobHistory">>,
                                             ctxCancelled))
    /\ UNCHANGED <<batches, batchSeq, now, ctxCancelled, resp, valOut, listOut, repoOut, redis,
                   mu, memCalls>>

\* one iteration of the loop over job_ids
\* faulty variant of ProcessBatchJobItem: a job ID that came earlier in the
\* batch is checked on the status read for that earlier item
ProcessBatchJobItemStaleStatus ==
    /\ batch.pc = "items"
    /\ batch.op.Action # BatchActionStart
    /\ batch.idx <= Len(batch.op.JobIDs)
    /\ LET jobID == batch.op.JobIDs[batch.idx]
           prior == {k \in 1..Len(batch.items) :
                        batch.items[k].item = jobID /\ batch.items[k].seen # "nil"}
           first == CHOOSE k \in prior : \A m \in prior : k <= m
           stale == IF prior # {} /\ jobID \in DOMAIN jobs
                    THEN [jobs EXCEPT ![jobID].Status = batch.items[first].seen]
                    ELSE jobs
           r == processJob(stale, jobSeq, jobID, batch.op, 0, now)
       IN /\ r.seq <= MaxJobs
          /\ jobSeq' = r.seq
          /\ jobs' = [id \in DOMAIN r.jobs |->
                         IF id \in DOMAIN jobs THEN jobs[id] ELSE r.jobs[id]]
          /\ batch' = LET rec == ItemRecord(batch.idx, jobID, r.err, r.seen,
                                                ReadBack(r.jobs, jobID), r.created, r.calls,
                                                ctxCancelled)
                       IN IF r.err # NoErr
                          THEN AppendFailed(batch, jobID, r.err, rec)
                          ELSE AppendSuccessful(batch, jobID, rec)
    /\ UNCHANGED <<history, batches, batchSeq, now, ctxCancelled, resp, valOut,
                   listOut, repoOut, redis, mu, memCalls>>

ProcessBatchJobItem ==
    /\ batch.pc = "items"
    /\ batch.op.Action # BatchActionStart
    /\ batch.idx <= Len(batch.op.JobIDs)
    /\ LET jobID == batch.op.JobIDs[batch.idx]
           r == processJob(jobs, jobSeq, jobID, batch.op, 0, now)
       IN /\ r.seq <= MaxJobs
          /\ jobSeq' = r.seq
          /\ jobs' = r.jobs
          /\ batch' = LET rec == ItemRecord(batch.idx, jobID, r.err, r.seen,
                                                ReadBack(r.jobs, jobID), r.created, r.calls,
                                                ctxCancelled)
                       IN IF r.err # NoErr
                          THEN AppendFailed(batch, jobID, r.err, rec)
                          ELSE AppendSuccessful(batch, jobID, rec)
    /\ UNCHANGED <<history, batches, batchSeq, now, ctxCancelled, resp, valOut,
                   listOut, repoOut, redis, mu, memCalls>>

----------------------------------------------------------------------------
(* RedisBatchRepository: a result is kept as a JSON document under the key  *)
(* "batch:<batch ID>"; the keys are written here by their batch ID          *)

\* json.Marshal of a time.Time: its RFC 3339 text
MarshalTime(t) == [RFC3339 |-> t]

UnmarshalTime(text) == text.RFC3339

\* faulty variant of MarshalBatchResult: the failed entries are left out
MarshalBatchResultDropsFailed(result) ==
    [batch_id |-> result.BatchID,
     start_time |-> MarshalTime(result.StartTime),
     end_time |-> MarshalTime(result.EndTime),
     action |-> result.Action,
     successful |-> result.Successful,
     failed |-> <<>>,
     summary |-> [total_jobs |-> result.Summary.TotalJobs,
                  success_count |-> result.Summary.SuccessCount,
                  failure_count |-> result.Summary.FailureCount,
                  duration |-> result.Summary.Duration]]

\* json.Marshal(result): the members are named by the json tags
MarshalBatchResult(result) ==
    [batch_id |-> result.BatchID,
     start_time |-> MarshalTime(result.StartTime),
     end_time |-> MarshalTime(result.EndTime),
     action |-> result.Action,
     successful |-> result.Successful,
     failed |-> [i \in 1..Len(result.Failed) |->
                   [job_id |-> result.Failed[i].JobID, error |-> result.Failed[i].Error]],
     summary |-> [total_jobs |-> result.Summary.TotalJobs,
                  success_count |-> result.Summary.SuccessCount,
                  failure_count |-> result.Summary.FailureCount,
                  duration |-> result.Summary.Duration]]

\* json.Unmarshal(data, &result)
UnmarshalBatchResult(data) ==
    [BatchID |-> data.batch_id,
     StartTime |-> UnmarshalTime(data.start_time),
     EndTime |-> UnmarshalTime(data.end_time),
     Action |-> data.action,
     Successful |-> data.successful,
     Failed |-> [i \in 1..Len(data.failed) |->
                   [JobID |-> data.failed[i].job_id, Error |-> data.failed[i].error]],
     Summary |-> [TotalJobs |-> data.summary.total_jobs,
                  SuccessCount |-> data.summary.success_count,
                  FailureCount |-> data.summary.failure_count,
                  Duration |-> data.summary.duration]]

\* SET key data: the key is written whether or not it exists
RedisSet(kv, key, data) ==
    [k \in DOMAIN kv \cup {key} |-> IF k = key THEN data ELSE kv[k]]

\* a nil *BatchResult
NilBatchResult == [nil |-> TRUE]

\* faulty variant of StoreBatchResult: every result goes under one key
StoreBatchResultOneKey(kv, result, up) ==
    IF ~up
    THEN [err |-> Wrapf("failed to store batch result", Errorf("redis")), batches |-> kv]
    ELSE [err |-> NoErr, batches |-> RedisSet(kv, "latest", MarshalBatchResult(result))]

\* up tells whether the Redis command succeeds
StoreBatchResult(kv, result, up) ==
    IF ~up
    THEN [err |-> Wrapf("failed to store batch result", Errorf("redis")), batches |-> kv]
    ELSE [err |-> NoErr, batches |-> RedisSet(kv, result.BatchID, MarshalBatchResult(result))]

\* faulty variant of GetBatchResult: an absent key gives (nil, nil)
GetBatchResultNilNil(kv, batchID, up) ==
    IF ~up
    THEN [result |-> NilBatchResult,
          err |-> Wrapf("failed to get batch result", Errorf("redis"))]
    ELSE IF batchID \notin DOMAIN kv
    THEN [result |-> NilBatchResult, err |-> NoErr]
    ELSE [result |-> UnmarshalBatchResult(kv[batchID]), err |-> NoErr]

GetBatchResult(kv, batchID, up) ==
    IF ~up
    THEN [result |-> NilBatchResult,
          err |-> Wrapf("failed to get batch result", Errorf("redis"))]
    ELSE IF batchID \notin DOMAIN kv
    THEN [result |-> NilBatchResult, err |-> Errorf("batch result not found")]
    ELSE [result |-> UnmarshalBatchResult(kv[batchID]), err |-> NoErr]

\* the result a reader finds under batchID while the store answers
StoredBatchResult(batchID) == GetBatchResult(batches, batchID, TRUE).result

\* a nil *time.Time, written as an instant no clock shows
NilTime == 0 - 1

NoBatchFilter ==
    [StartTime |-> NilTime, EndTime |-> NilTime, Action |-> "", Status |-> "",
     MinSuccess |-> "nil", MaxFailures |-> "nil", JobIDs |-> <<>>]

\* float64(a) / float64(b) for counts a, b >= 0: a ratio, +Inf or NaN
DivFloat64(a, b) ==
    IF b # 0 THEN [num |-> a, den |-> b]
    ELSE IF a = 0 THEN [nan |-> TRUE] ELSE [inf |-> TRUE]

\* successRate == 1.0
RateIsOne(rate) == "num" \in DOMAIN rate /\ rate.num = rate.den

\* successRate > 0
RateIsPositive(rate) == "inf" \in DOMAIN rate \/ ("num" \in DOMAIN rate /\ rate.num > 0)

\* faulty variant of currentStatus: any success makes the batch a success
currentStatusAnySuccess(result) ==
    LET successRate == DivFloat64(result.Summary.SuccessCount, result.Summary.TotalJobs)
    IN IF RateIsPositive(successRate) THEN "success" ELSE "failed"

\* the class matchesBatchFilter derives from the summary
currentStatus(result) ==
    LET successRate == DivFloat64(result.Summary.SuccessCount, result.Summary.TotalJobs)
    IN IF RateIsOne(successRate) THEN "success"
       ELSE IF RateIsPositive(successRate) THEN "partial"
       ELSE "failed"

\* faulty variant of jobMap: the failed entries are left out
jobMapSuccessfulOnly(result) ==
    {result.Successful[i] : i \in 1..Len(result.Successful)}

\* the IDs in result.Successful and in result.Failed
jobMap(result) ==
    {result.Successful[i] : i \in 1..Len(result.Successful)}
    \cup {result.Failed[i].JobID : i \in 1..Len(result.Failed)}

matchesBatchFilter(result, filter) ==
    IF filter.Status = "" /\ Len(filter.JobIDs) = 0 THEN TRUE
    ELSE IF filter.Status # "" /\ currentStatus(result) # filter.Status THEN FALSE
    ELSE IF Len(filter.JobIDs) > 0
            /\ \E i \in 1..Len(filter.JobIDs) : filter.JobIDs[i] \notin jobMap(result)
    THEN FALSE
    ELSE TRUE

\* keys is what KEYS batch:* returned, in the order it returned them
ListBatchResults(kv, filter, keys, up) ==
    IF ~up
    THEN [results |-> <<>>, err |-> Wrapf("failed to list batch keys", Errorf("redis"))]
    ELSE [results |-> SelectSeq([i \in 1..Len(keys) |-> UnmarshalBatchResult(kv[keys[i]])],
                                LAMBDA r : matchesBatchFilter(r, filter)),
          err |-> NoErr]

\* faulty variant of BatchResult: total_jobs counts the successful items only
BatchResultCountsSuccesses(b, t) ==
    [BatchID |-> b.BatchID, Action |-> b.op.Action, StartTime |-> b.StartTime,
     EndTime |-> t,
     Successful |-> b.Successful, Failed |-> b.Failed,
     Summary |-> [TotalJobs |-> Len(b.Successful), SuccessCount |-> Len(b.Successful),
                  FailureCount |-> Len(b.Failed),
                  Duration |-> t - b.StartTime]]

BatchResult(b, t) ==
    [BatchID |-> b.BatchID, Action |-> b.op.Action, StartTime |-> b.StartTime,
     EndTime |-> t,
     Successful |-> b.Successful, Failed |-> b.Failed,
     Summary |-> [TotalJobs |-> b.totalJobs, SuccessCount |-> Len(b.Successful),
                  FailureCount |-> Len(b.Failed),
                  Duration |-> t - b.StartTime]]

\* faulty variant of ProcessBatchStore: a failed store removes the jobs the batch created
ProcessBatchStoreRollsBack ==
    /\ batch.pc = "items"
    /\ batch.idx > batch.totalJobs
    /\ \E stored \in IF ctxCancelled THEN {FALSE} ELSE BOOLEAN :
          IF stored
          THEN /\ batches' = StoreBatchResult(batches, BatchResult(batch, now), TRUE).batches
               /\ jobs' = jobs
               /\ resp' = [NoResp EXCEPT !.kind = "batch", !.id = batch.BatchID]
          ELSE /\ batches' = batches
               /\ jobs' = [id \in DOMAIN jobs \
                              {batch.items[k].created : k \in DOMAIN batch.items} |-> jobs[id]]
               /\ resp' = [NoResp EXCEPT !.kind = "batch",
                                         !.err = "failed to store batch result"]
    /\ batch' = [batch EXCEPT !.pc = "done"]
    /\ UNCHANGED <<history, jobSeq, batchSeq, now, ctxCancelled, valOut, listOut, repoOut, redis,
                   mu, memCalls>>

\* the code after the loop: build the summary, store the result, return
ProcessBatchStore ==
    /\ batch.pc = "items"
    /\ batch.idx > batch.totalJobs
    /\ \E stored \in IF ctxCancelled THEN {FALSE} ELSE BOOLEAN :
          IF stored
          THEN /\ batches' = StoreBatchResult(batches, BatchResult(batch, now), TRUE).batches
               /\ resp' = [NoResp EXCEPT !.kind = "batch", !.id = batch.BatchID]
          ELSE /\ batches' = batches
               /\ resp' = [NoResp EXCEPT !.kind = "batch",
                                         !.err = "failed to store batch result"]
    /\ batch' = [batch EXCEPT !.pc = "done"]
    /\ UNCHANGED <<jobs, history, jobSeq, batchSeq, now, ctxCancelled, valOut,
                   listOut, repoOut, redis, mu, memCalls>>

\* the caller cancels the context of the invocation in flight
CtxCancel ==
    /\ batch.pc = "items"
    /\ ~ctxCancelled
    /\ ctxCancelled' = TRUE
    /\ UNCHANGED <<jobs, history, batches, jobSeq, batchSeq, now, batch, resp, valOut, listOut, repoOut, redis,
                   mu, memCalls>>

----------------------------------------------------------------------------
(* EncryptionHandler: the single-job requests *)

StatusOK == 200
StatusAccepted == 202
StatusBadRequest == 400
StatusNotFound == 404
StatusConflict == 409
StatusInternalServerError == 500
StatusUnauthorized == 401
StatusForbidden == 403
StatusTooManyRequests == 429
StatusServiceUnavailable == 503
StatusGatewayTimeout == 504

ErrCodeValidation == "validation_error"
ErrCodeJobState == "job_state_error"
ErrCodeNotFound == "not_found"
ErrCodeEncryptionFailed == "encryption_failed"
ErrCodeInvalidFormat == "invalid_format"
ErrCodeBatchOperation == "batch_operation_error"
ErrCodeUnauthorized == "unauthorized"
ErrCodeForbidden == "forbidden"
ErrCodeTimeout == "timeout"
ErrCodeRateLimit == "rate_limit"
ErrCodeJobNotFound == "job_not_found"
ErrCodeBatchNotFound == "batch_not_found"
ErrCodeInvalidState == "invalid_state"
ErrCodeInvalidAction == "invalid_action"

\* faulty variant of ErrorStatusMap: a state error is a bad request
ErrorStatusMapStateIsBadRequest ==
    [code \in {ErrCodeInvalidFormat, ErrCodeValidation, ErrCodeJobState, ErrCodeNotFound,
               ErrCodeBatchOperation, ErrCodeUnauthorized, ErrCodeForbidden, ErrCodeTimeout,
               ErrCodeRateLimit, ErrCodeJobNotFound, ErrCodeBatchNotFound,
               ErrCodeInvalidState, ErrCodeInvalidAction, ErrCodeEncryptionFailed} |->
        CASE code \in {ErrCodeInvalidFormat, ErrCodeValidation, ErrCodeBatchOperation,
                       ErrCodeInvalidAction, ErrCodeJobState} -> StatusBadRequest
          [] code = ErrCodeInvalidState -> StatusConflict
          [] code \in {ErrCodeNotFound, ErrCodeJobNotFound, ErrCodeBatchNotFound} ->
                StatusNotFound
          [] code = ErrCodeUnauthorized -> StatusUnauthorized
          [] code = ErrCodeForbidden -> StatusForbidden
          [] code = ErrCodeTimeout -> StatusGatewayTimeout
          [] code = ErrCodeRateLimit -> StatusTooManyRequests
          [] code = ErrCodeEncryptionFailed -> StatusInternalServerError]

ErrorStatusMap ==
    [code \in {ErrCodeInvalidFormat, ErrCodeValidation, ErrCodeJobState, ErrCodeNotFound,
               ErrCodeBatchOperation, ErrCodeUnauthorized, ErrCodeForbidden, ErrCodeTimeout,
               ErrCodeRateLimit, ErrCodeJobNotFound, ErrCodeBatchNotFound,
               ErrCodeInvalidState, ErrCodeInvalidAction, ErrCodeEncryptionFailed} |->
        CASE code \in {ErrCodeInvalidFormat, ErrCodeValidation, ErrCodeBatchOperation,
                       ErrCodeInvalidAction} -> StatusBadRequest
          [] code \in {ErrCodeJobState, ErrCodeInvalidState} -> StatusConflict
          [] code \in {ErrCodeNotFound, ErrCodeJobNotFound, ErrCodeBatchNotFound} ->
                StatusNotFound
          [] code = ErrCodeUnauthorized -> StatusUnauthorized
          [] code = ErrCodeForbidden -> StatusForbidden
          [] code = ErrCodeTimeout -> StatusGatewayTimeout
          [] code = ErrCodeRateLimit -> StatusTooManyRequests
          [] code = ErrCodeEncryptionFailed -> StatusInternalServerError]

\* faulty variant of IsRetryableError: every server error is retryable
IsRetryableErrorAnyServerError(code) ==
    IF code \notin DOMAIN ErrorStatusMap THEN FALSE
    ELSE \/ ErrorStatusMap[code] >= StatusInternalServerError
         \/ ErrorStatusMap[code] = StatusTooManyRequests

IsRetryableError(code) ==
    IF code \notin DOMAIN ErrorStatusMap THEN FALSE
    ELSE \/ ErrorStatusMap[code] = StatusServiceUnavailable
         \/ ErrorStatusMap[code] = StatusGatewayTimeout
         \/ ErrorStatusMap[code] = StatusTooManyRequests

BatchError(field, message, value, code, actionType) ==
    [type |-> "BatchError", Field |-> field, Message |-> message, Value |-> value,
     Code |-> code, ActionType |-> actionType]

ConvertJobStateErrorToBatchError(err) ==
    BatchError("job_state", ErrorString(err), err.CurrentState, ErrCodeJobState, err.Action)

GetErrorHTTPStatus(err) ==
    IF err.Code \in DOMAIN ErrorStatusMap THEN ErrorStatusMap[err.Code]
    ELSE StatusInternalServerError

RECURSIVE MaxStatus(_, _)
\* the loop of GetBatchErrorHTTPStatus: the highest status among the errors
MaxStatus(errs, maxStatus) ==
    IF errs = <<>> THEN maxStatus
    ELSE MaxStatus(Tail(errs), IF GetErrorHTTPStatus(Head(errs)) > maxStatus
                               THEN GetErrorHTTPStatus(Head(errs)) ELSE maxStatus)

GetBatchErrorHTTPStatus(response) ==
    IF Len(response.Errors) = 0 THEN StatusInternalServerError
    ELSE MaxStatus(response.Errors, StatusBadRequest)

\* the type switch looks at the error itself, not at what it wraps
GetBatchErrorResponse(err, action) ==
    LET batchError ==
            CASE err.type = "JobStateError" -> ConvertJobStateErrorToBatchError(err)
              [] err.type = "BatchValidationError" ->
                    BatchError(err.Field, err.Message, err.Value, ErrCodeValidation, action)
              [] err.type = "BatchError" -> err
              [] OTHER -> BatchError("general", ErrorString(err), "",
                                     ErrCodeBatchOperation, action)
        response == [Status |-> "error", Message |-> "Operation failed",
                     Errors |-> <<batchError>>,
                     Details |-> IF err.type = "JobStateError" THEN action ELSE ""]
    IN [response |-> response, status |-> GetBatchErrorHTTPStatus(response)]

GetHTTPStatusForError(err) ==
    CASE err.type = "JobStateError" -> StatusConflict
      [] err.type = "BatchValidationError" -> StatusBadRequest
      [] err.type = "BatchError" -> GetErrorHTTPStatus(err)
      [] OTHER -> StatusInternalServerError

Respond(kind, id, code, err, seen, js) ==
    [NoResp EXCEPT !.kind = kind, !.id = id, !.code = code, !.err = err, !.seen = seen,
                   !.readback = ReadBack(js, id)]

\* handleSingleEncryption
StartEncryptionHandler(sourceURL) ==
    /\ IF sourceURL = ""
       THEN /\ UNCHANGED <<jobs, jobSeq>>
            /\ resp' = Respond("start", "", StatusBadRequest, ErrCodeValidation, "nil", jobs)
       ELSE /\ jobSeq < MaxJobs
            /\ LET r == StartEncryption(jobs, jobSeq, sourceURL, now)
               IN /\ jobs' = r.jobs
                  /\ jobSeq' = jobSeq + 1
                  /\ resp' = IF r.err # NoErr
                             THEN Respond("start", "", StatusInternalServerError,
                                          ErrCodeEncryptionFailed, "nil", r.jobs)
                             ELSE Respond("start", r.job.ID, StatusAccepted, "",
                                          "nil", r.jobs)
    /\ UNCHANGED <<history, batches, batchSeq, now, batch, ctxCancelled, valOut,
                   listOut, repoOut, redis, mu, memCalls>>

\* the part GetStatus, PauseJob, ResumeJob and StopJob share: the job_id check and the fetch
FetchResponse(kind, jobID) ==
    LET got == GetJobStatus(jobs, jobID)
    IN IF jobID = ""
       THEN Respond(kind, jobID, StatusBadRequest, ErrCodeValidation, "nil", jobs)
       ELSE IF got.err # NoErr
       THEN IF ErrorsIs(got.err, ErrJobNotFound)
            THEN Respond(kind, jobID, StatusNotFound, ErrCodeNotFound, "nil", jobs)
            ELSE Respond(kind, jobID, StatusInternalServerError, ErrCodeEncryptionFailed,
                         "nil", jobs)
       ELSE Respond(kind, jobID, StatusOK, "", got.job.Status, jobs)

\* the check and the service call of a lifecycle request whose fetch succeeded
LifecycleHandler(kind, jobID, check, r) ==
    LET fetched == FetchResponse(kind, jobID)
    IN /\ jobs' = IF fetched.code = StatusOK /\ ~IsJobStateError(check) THEN r.jobs ELSE jobs
       /\ resp' = IF fetched.code # StatusOK THEN fetched
                  ELSE IF IsJobStateError(check)
                  THEN Respond(kind, jobID, StatusConflict, ErrCodeJobState,
                               fetched.seen, jobs)
                  ELSE IF r.err # NoErr
                  THEN Respond(kind, jobID, StatusInternalServerError,
                               ErrCodeEncryptionFailed, fetched.seen, r.jobs)
                  ELSE Respond(kind, jobID, StatusOK, "", fetched.seen, r.jobs)
       /\ UNCHANGED <<history, batches, jobSeq, batchSeq, now, batch, ctxCancelled,
                      valOut, listOut, repoOut, redis, mu, memCalls>>

GetStatusHandler(jobID) ==
    /\ resp' = FetchResponse("status", jobID)
    /\ UNCHANGED <<jobs, history, batches, jobSeq, batchSeq, now, batch, ctxCancelled,
                   valOut, listOut, repoOut, redis, mu, memCalls>>

PauseJobHandler(jobID) ==
    LifecycleHandler("pause", jobID, CanPause(MemGet(jobs, jobID)), PauseJob(jobs, jobID))

ResumeJobHandler(jobID) ==
    LifecycleHandler("resume", jobID, CanResume(MemGet(jobs, jobID)), ResumeJob(jobs, jobID))

StopJobHandler(jobID) ==
    LifecycleHandler("stop", jobID, CanStop(MemGet(jobs, jobID)), StopJob(jobs, jobID))

----------------------------------------------------------------------------
(* Another path writes a job's status straight to the store (JobRepository.Update) *)

RepoUpdate(jobID, status) ==
    /\ jobID \in DOMAIN jobs
    /\ jobs[jobID].Status # status
    /\ jobs' = MemUpdate(jobs, [jobs[jobID] EXCEPT !.Status = status,
                                                   !.UpdatedAt = now]).jobs
    /\ UNCHANGED <<history, batches, jobSeq, batchSeq, now, batch, ctxCancelled, resp,
                   valOut, listOut, repoOut, redis, mu, memCalls>>

----------------------------------------------------------------------------
(* A call of validateBatchOperation on its own *)

NoValOut == [called |-> FALSE, op |-> [Action |-> "", JobIDs |-> <<>>, SourceURLs |-> <<>>],
             errors |-> <<>>]

ValOps ==
    {[Action |-> a, JobIDs |-> ids, SourceURLs |-> u] :
        a \in BatchActions \cup {"", "bogus"},
        ids \in SeqsUpTo({"", "j1"}, MaxValLen),
        u \in SeqsUpTo({"", "a"}, MaxValLen)}

ValidateCall(op) ==
    /\ valOut' = [called |-> TRUE, op |-> op, errors |-> validateBatchOperation(op)]
    /\ UNCHANGED <<jobs, history, batches, jobSeq, batchSeq, now, batch, ctxCancelled,
                   resp, listOut, repoOut, redis, mu, memCalls>>

----------------------------------------------------------------------------
(* EncryptionService.ListJobs: filter, sort, paginate *)

SortFieldCreatedAt == "created_at"
SortFieldUpdatedAt == "updated_at"
SortFieldProgress == "progress"
SortFieldStatus == "status"
SortFieldSourceURL == "source_url"
SortFieldID == "id"
SortOrderAsc == "asc"
SortOrderDesc == "desc"

\* declared next to the sort constants; no function reads it
MaxSortFields == 3

ValidSortFields == {SortFieldCreatedAt, SortFieldUpdatedAt, SortFieldProgress,
                    SortFieldStatus, SortFieldSourceURL, SortFieldID}

\* strings.ToLower(s) == t, for a token s and a lower-case constant t
LowerIs(s, t) == ToLower(Bytes(s)) = Bytes(t)

SortField(field, order, caseSensitive) ==
    [Field |-> field, Order |-> order, CaseSensitive |-> caseSensitive]

RECURSIVE validateSortOptionsIgnoresOrder(_)
\* faulty variant of validateSortOptions: the order of a field is not looked at
validateSortOptionsIgnoresOrder(fields) ==
    IF fields = <<>> THEN NoErr
    ELSE LET field == Head(fields)
         IN IF field.Field # "" /\ ~(\E v \in ValidSortFields : LowerIs(field.Field, v))
            THEN [type |-> "error", Message |-> "invalid sort field", Is |-> "",
                  Value |-> field.Field]
            ELSE validateSortOptionsIgnoresOrder(Tail(fields))

RECURSIVE validateSortOptions(_)
\* the error of the first field that has an unknown name or order
validateSortOptions(fields) ==
    IF fields = <<>> THEN NoErr
    ELSE LET field == Head(fields)
         IN IF field.Field # "" /\ ~(\E v \in ValidSortFields : LowerIs(field.Field, v))
            THEN [type |-> "error", Message |-> "invalid sort field", Is |-> "",
                  Value |-> field.Field]
            ELSE IF field.Order # "" /\ ~LowerIs(field.Order, SortOrderAsc)
                                     /\ ~LowerIs(field.Order, SortOrderDesc)
            THEN [type |-> "error", Message |-> "invalid sort order", Is |-> "",
                  Value |-> field.Order]
            ELSE validateSortOptions(Tail(fields))

NoFilter == [Status |-> "", StartDate |-> 0, EndDate |-> 0, SourceURL |-> "", MinProgress |-> 0]

matchesFilter(job, filter) ==
    IF filter.Status # "" /\ job.Status # filter.Status THEN FALSE
    ELSE IF filter.StartDate > 0 /\ job.CreatedAt < filter.StartDate THEN FALSE
    ELSE IF filter.EndDate > 0 /\ job.CreatedAt > filter.EndDate THEN FALSE
    ELSE IF filter.SourceURL # "" /\ ~Contains(job.SourceURL, filter.SourceURL) THEN FALSE
    ELSE IF filter.MinProgress > 0 /\ job.Progress < filter.MinProgress THEN FALSE
    ELSE TRUE

compareInt64(a, b) == IF a < b THEN -1 ELSE IF a > b THEN 1 ELSE 0

compareFloat64(a, b) == IF a < b THEN -1 ELSE IF a > b THEN 1 ELSE 0

compareValues(a, b, field) ==
    CASE field = SortFieldCreatedAt -> compareInt64(a.CreatedAt, b.CreatedAt)
      [] field = SortFieldUpdatedAt -> compareInt64(a.UpdatedAt, b.UpdatedAt)
      [] field = SortFieldProgress -> compareFloat64(a.Progress, b.Progress)
      [] OTHER -> 0

\* faulty variant of compareStrings: the case_sensitive flag is not looked at
compareStringsIgnoresFlag(a, b, caseSensitive) ==
    CompareBytes(ToLower(Bytes(a)), ToLower(Bytes(b)))

compareStrings(a, b, caseSensitive) ==
    IF ~caseSensitive
    THEN CompareBytes(ToLower(Bytes(a)), ToLower(Bytes(b)))
    ELSE CompareBytes(Bytes(a), Bytes(b))

getFieldValue(job, field) ==
    CASE field = SortFieldStatus -> job.Status
      [] field = SortFieldSourceURL -> job.SourceURL
      [] OTHER -> ""

\* the comparison of one sort field, after its name has been lower-cased
FieldComparison(a, b, field) ==
    CASE LowerIs(field.Field, SortFieldCreatedAt) -> compareValues(a, b, SortFieldCreatedAt)
      [] LowerIs(field.Field, SortFieldUpdatedAt) -> compareValues(a, b, SortFieldUpdatedAt)
      [] LowerIs(field.Field, SortFieldProgress) -> compareValues(a, b, SortFieldProgress)
      [] LowerIs(field.Field, SortFieldStatus) ->
            compareStrings(getFieldValue(a, SortFieldStatus),
                           getFieldValue(b, SortFieldStatus), field.CaseSensitive)
      [] LowerIs(field.Field, SortFieldSourceURL) ->
            compareStrings(getFieldValue(a, SortFieldSourceURL),
                           getFieldValue(b, SortFieldSourceURL), field.CaseSensitive)
      [] LowerIs(field.Field, SortFieldID) -> CompareBytes(Bytes(a.ID), Bytes(b.ID))
      [] OTHER -> 0

RECURSIVE JobLess(_, _, _)
\* the less function handed to sort.SliceStable
JobLess(a, b, fields) ==
    IF fields = <<>> THEN FALSE
    ELSE LET field == Head(fields)
             asc == field.Order = "" \/ LowerIs(field.Order, SortOrderAsc)
             desc == field.Order # "" /\ LowerIs(field.Order, SortOrderDesc)
             comparison == FieldComparison(a, b, field)
         IN IF comparison # 0
            THEN (asc /\ comparison < 0) \/ (desc /\ comparison > 0)
            ELSE JobLess(a, b, Tail(fields))

RECURSIVE InsertSorted(_, _, _)
\* one pass of the insertion sort: x moves left while it is less than its neighbour
InsertSorted(sorted, x, fields) ==
    IF sorted = <<>> THEN <<x>>
    ELSE LET last == sorted[Len(sorted)]
         IN IF JobLess(x, last, fields)
            THEN Append(InsertSorted(SubSeq(sorted, 1, Len(sorted) - 1), x, fields), last)
            ELSE Append(sorted, x)

RECURSIVE SliceStable(_, _)
\* sort.SliceStable on a slice shorter than its block size: a stable insertion sort
SliceStable(list, fields) ==
    IF list = <<>> THEN <<>>
    ELSE InsertSorted(SliceStable(SubSeq(list, 1, Len(list) - 1), fields),
                      list[Len(list)], fields)

\* faulty variant of sortJobs: the default order is ascending
sortJobsDefaultAscending(list, fields) ==
    SliceStable(list, IF Len(fields) = 0
                      THEN <<SortField(SortFieldCreatedAt, SortOrderAsc, FALSE)>>
                      ELSE fields)

sortJobs(list, fields) ==
    SliceStable(list, IF Len(fields) = 0
                      THEN <<SortField(SortFieldCreatedAt, SortOrderDesc, FALSE)>>
                      ELSE fields)

\* filtered[start:end], which panics when the bounds are not 0 <= start <= end
\* the largest and the smallest int
MaxInt == 2^(IntBits - 1) - 1

MinInt == 0 - 2^(IntBits - 1)

\* a + b on ints: the sum wraps around
AddInt(a, b) ==
    IF a + b > MaxInt THEN a + b - 2^IntBits
    ELSE IF a + b < MinInt THEN a + b + 2^IntBits
    ELSE a + b

\* filtered[start:end] panics when start < 0 or end < start
Paginate(filtered, limit, offset) ==
    LET start == offset
        sum == AddInt(offset, limit)
        end == IF sum > Len(filtered) THEN Len(filtered) ELSE sum
    IN IF start > Len(filtered) THEN [err |-> NoErr, jobs |-> <<>>]
       ELSE IF start < 0 \/ end < start
       THEN [err |-> [type |-> "panic"], jobs |-> <<>>]
       ELSE [err |-> NoErr, jobs |-> SubSeq(filtered, start + 1, end)]

\* listed is what repository.List returned, in the order it returned it
ListJobs(listed, limit, offset, filter, fields) ==
    IF validateSortOptions(fields) # NoErr
    THEN [err |-> Wrapf("invalid sort options", validateSortOptions(fields)), jobs |-> <<>>]
    ELSE Paginate(sortJobs(SelectSeq(listed, LAMBDA j : matchesFilter(j, filter)), fields),
                  limit, offset)

\* MemoryRepository.List ranges over a Go map: the jobs come in any order
RECURSIVE Orders(_)
Orders(S) ==
    IF S = {} THEN {<<>>}
    ELSE UNION {{<<x>> \o q : q \in Orders(S \ {x})} : x \in S}

MemList(js) == {[i \in 1..Len(o) |-> js[o[i]]] : o \in Orders(DOMAIN js)}

\* listCalls counts the calls of repository.List, listed is what the call returned
NoListOut ==
    [called |-> FALSE, limit |-> 0, offset |-> 0, filter |-> NoFilter, fields |-> <<>>,
     listCalls |-> 0, listed |-> <<>>, err |-> NoErr, jobs |-> <<>>]

ListJobsCall(limit, offset, filter, fields) ==
    /\ IF validateSortOptions(fields) # NoErr
       THEN listOut' = [called |-> TRUE, limit |-> limit, offset |-> offset,
                        filter |-> filter, fields |-> fields, listCalls |-> 0,
                        listed |-> <<>>,
                        err |-> Wrapf("invalid sort options", validateSortOptions(fields)),
                        jobs |-> <<>>]
       ELSE \E listed \in MemList(jobs) :
               LET r == ListJobs(listed, limit, offset, filter, fields)
               IN listOut' = [called |-> TRUE, limit |-> limit, offset |-> offset,
                              filter |-> filter, fields |-> fields, listCalls |-> 1,
                              listed |-> listed, err |-> r.err, jobs |-> r.jobs]
    /\ UNCHANGED <<jobs, history, batches, jobSeq, batchSeq, now, batch, ctxCancelled,
                   resp, valOut, repoOut, redis, mu, memCalls>>

\* another path writes a job's progress straight to the store (JobRepository.Update)
RepoUpdateProgress(jobID, progress) ==
    /\ jobID \in DOMAIN jobs
    /\ jobs[jobID].Progress # progress
    /\ jobs' = MemUpdate(jobs, [jobs[jobID] EXCEPT !.Progress = progress,
                                                   !.UpdatedAt = now]).jobs
    /\ UNCHANGED <<history, batches, jobSeq, batchSeq, now, batch, ctxCancelled, resp,
                   valOut, listOut, repoOut, redis, mu, memCalls>>

Tick ==
    /\ now < MaxTime
    /\ now' = now + 1
    /\ UNCHANGED <<jobs, history, batches, jobSeq, batchSeq, batch, ctxCancelled, resp,
                   valOut, listOut, repoOut, redis, mu, memCalls>>

SortInputs ==
    {<<>>,
     <<SortField("status", "asc", FALSE)>>,
     <<SortField("status", "asc", FALSE), SortField("created_at", "desc", FALSE)>>,
     <<SortField("id", "desc", FALSE)>>,
     <<SortField("source_url", "", TRUE)>>,
     <<SortField("Status", "DESC", FALSE), SortField("progress", "desc", FALSE)>>,
     <<SortField("updated_at", "asc", FALSE), SortField("id", "asc", FALSE)>>,
     <<SortField("bogus", "asc", FALSE)>>,
     <<SortField("status", "asc", FALSE), SortField("created_at", "up", FALSE)>>}

FilterInputs ==
    {NoFilter,
     [NoFilter EXCEPT !.Status = StatusPaused],
     [NoFilter EXCEPT !.SourceURL = "a"],
     [NoFilter EXCEPT !.StartDate = 1],
     [NoFilter EXCEPT !.EndDate = 1],
     [NoFilter EXCEPT !.EndDate = -1],
     [NoFilter EXCEPT !.MinProgress = 50],
     [NoFilter EXCEPT !.Status = StatusProgress, !.StartDate = 1, !.MinProgress = 50]}

\* limit > 0 and offset >= 0, as the request handler passes them
PageInputs == {<<MaxJobs, 0>>, <<1, 0>>, <<1, 1>>, <<1, MaxJobs + 1>>,
               <<MaxJobs + 1, 1>>, <<MaxInt, 0>>, <<MaxInt, 1>>}

\* the calls made: every filter, every sort and every page on its own, and
\* two calls that combine a filter, a sort and a page
QueryInputs ==
    {[page |-> <<MaxJobs, 0>>, filter |-> f, fields |-> <<>>] : f \in FilterInputs}
    \cup {[page |-> <<MaxJobs, 0>>, filter |-> NoFilter, fields |-> q] : q \in SortInputs}
    \cup {[page |-> pg, filter |-> NoFilter, fields |-> <<>>] : pg \in PageInputs}
    \cup {[page |-> <<1, 1>>, filter |-> [NoFilter EXCEPT !.SourceURL = "a"],
           fields |-> <<SortField("status", "asc", FALSE),
                        SortField("created_at", "desc", FALSE)>>],
          [page |-> <<1, 0>>, filter |-> [NoFilter EXCEPT !.StartDate = 1],
           fields |-> <<SortField("bogus", "asc", FALSE)>>]}

----------------------------------------------------------------------------
(* RedisJobRepository: a job is kept as a JSON document under "job:<id>",   *)
(* its history as a list of JSON documents under "job_history:<id>"         *)

EmptyRedis == [jobs |-> << >>, history |-> << >>]

\* json.Marshal(job); decryption_key and error are empty and left out
MarshalJob(job) ==
    [id |-> job.ID, source_url |-> job.SourceURL, status |-> job.Status,
     progress |-> job.Progress, created_at |-> job.CreatedAt, updated_at |-> job.UpdatedAt]

UnmarshalJob(data) ==
    [ID |-> data.id, SourceURL |-> data.source_url, Status |-> data.status,
     Progress |-> data.progress, CreatedAt |-> data.created_at, UpdatedAt |-> data.updated_at]

\* SET job:<id>, whether or not the key exists
RedisCreate(kv, job, up) ==
    IF ~up
    THEN [err |-> Wrapf("failed to save job to Redis", Errorf("redis")), jobs |-> kv]
    ELSE [err |-> NoErr, jobs |-> RedisSet(kv, job.ID, MarshalJob(job))]

RedisGet(kv, jobID, up) ==
    IF ~up
    THEN [job |-> NoJob, err |-> Wrapf("failed to get job from Redis", Errorf("redis"))]
    ELSE IF jobID \notin DOMAIN kv THEN [job |-> NoJob, err |-> NoErr]
    ELSE [job |-> UnmarshalJob(kv[jobID]), err |-> NoErr]

\* json.Marshal(entry): batch_id is left out when empty (omitempty)
MarshalHistoryEntry(entry) ==
    [k \in {"timestamp", "action", "status", "details"}
            \cup (IF entry.BatchID # "" THEN {"batch_id"} ELSE {}) |->
        CASE k = "timestamp" -> <<MarshalTime(entry.Timestamp)>>
          [] k = "action" -> <<entry.Action>>
          [] k = "status" -> <<entry.Status>>
          [] k = "batch_id" -> <<entry.BatchID>>
          [] OTHER -> <<[batch_size |-> entry.batch_size]>>]

\* json.Unmarshal(item, &entry): a member left out gives the zero value
UnmarshalHistoryEntry(data) ==
    [Timestamp |-> UnmarshalTime(data["timestamp"][1]),
     Action |-> data["action"][1],
     BatchID |-> IF "batch_id" \in DOMAIN data THEN data["batch_id"][1] ELSE "",
     Status |-> data["status"][1],
     batch_size |-> data["details"][1].batch_size]

\* faulty variant of RedisAddJobHistory: LPUSH, the entry goes to the front
RedisAddJobHistoryLPush(h, jobID, entry, up) ==
    IF ~up
    THEN [err |-> Wrapf("failed to add job history entry", Errorf("redis")), history |-> h]
    ELSE [err |-> NoErr,
          history |-> [k \in DOMAIN h \cup {jobID} |->
                          IF k # jobID THEN h[k]
                          ELSE IF jobID \in DOMAIN h
                               THEN <<MarshalHistoryEntry(entry)>> \o h[jobID]
                               ELSE <<MarshalHistoryEntry(entry)>>]]

\* RPUSH job_history:<id>
RedisAddJobHistory(h, jobID, entry, up) ==
    IF ~up
    THEN [err |-> Wrapf("failed to add job history entry", Errorf("redis")), history |-> h]
    ELSE [err |-> NoErr,
          history |-> [k \in DOMAIN h \cup {jobID} |->
                          IF k # jobID THEN h[k]
                          ELSE IF jobID \in DOMAIN h
                               THEN Append(h[jobID], MarshalHistoryEntry(entry))
                               ELSE <<MarshalHistoryEntry(entry)>>]]

\* LRANGE job_history:<id> 0 -1
RedisGetJobHistory(h, jobID, up) ==
    IF ~up
    THEN [entries |-> <<>>, err |-> Wrapf("failed to get job history", Errorf("redis"))]
    ELSE [entries |-> IF jobID \in DOMAIN h
                      THEN [i \in 1..Len(h[jobID]) |-> UnmarshalHistoryEntry(h[jobID][i])]
                      ELSE <<>>,
          err |-> NoErr]

MemGetJobHistory(h, jobID) ==
    [entries |-> IF jobID \in DOMAIN h THEN h[jobID] ELSE <<>>, err |-> NoErr]

----------------------------------------------------------------------------
(* Calls on a job store on its own; one store serves a deployment *)

MemoryInUse == redis = EmptyRedis

RedisInUse == DOMAIN jobs = {} /\ DOMAIN history = {}

MemCreateCall(job) ==
    /\ MemoryInUse
    /\ LET r == MemCreate(jobs, job)
       IN /\ jobs' = r.jobs
          /\ repoOut' = [op |-> "Create", store |-> "memory", job |-> job,
                         before |-> MemGet(jobs, job.ID), err |-> r.err]
    /\ UNCHANGED <<history, batches, jobSeq, batchSeq, now, batch, ctxCancelled, resp,
                   valOut, listOut, redis, mu, memCalls>>

RedisCreateCall(job) ==
    /\ RedisInUse
    /\ \E up \in BOOLEAN :
          LET r == RedisCreate(redis.jobs, job, up)
          IN /\ redis' = [redis EXCEPT !.jobs = r.jobs]
             /\ repoOut' = [op |-> "Create", store |-> "redis", job |-> job,
                            before |-> RedisGet(redis.jobs, job.ID, TRUE).job,
                            err |-> r.err]
    /\ UNCHANGED <<jobs, history, batches, jobSeq, batchSeq, now, batch, ctxCancelled,
                   resp, valOut, listOut, mu, memCalls>>

MemAddJobHistoryCall(jobID, entry) ==
    /\ MemoryInUse
    /\ Len(MemGetJobHistory(history, jobID).entries) < MaxHistory
    /\ history' = MemAddJobHistory(history, jobID, entry)
    /\ repoOut' = [op |-> "AddJobHistory", store |-> "memory", jobID |-> jobID,
                   entry |-> entry, err |-> NoErr]
    /\ UNCHANGED <<jobs, batches, jobSeq, batchSeq, now, batch, ctxCancelled, resp,
                   valOut, listOut, redis, mu, memCalls>>

RedisAddJobHistoryCall(jobID, entry) ==
    /\ RedisInUse
    /\ Len(RedisGetJobHistory(redis.history, jobID, TRUE).entries) < MaxHistory
    /\ \E up \in BOOLEAN :
          LET r == RedisAddJobHistory(redis.history, jobID, entry, up)
          IN /\ redis' = [redis EXCEPT !.history = r.history]
             /\ repoOut' = [op |-> "AddJobHistory", store |-> "redis", jobID |-> jobID,
                            entry |-> entry, err |-> r.err]
    /\ UNCHANGED <<jobs, history, batches, jobSeq, batchSeq, now, batch, ctxCancelled,
                   resp, valOut, listOut, mu, memCalls>>

MemGetJobHistoryCall(jobID) ==
    /\ MemoryInUse
    /\ LET r == MemGetJobHistory(history, jobID)
       IN repoOut' = [op |-> "GetJobHistory", store |-> "memory", jobID |-> jobID,
                      entries |-> r.entries, err |-> r.err]
    /\ UNCHANGED <<jobs, history, batches, jobSeq, batchSeq, now, batch, ctxCancelled,
                   resp, valOut, listOut, redis, mu, memCalls>>

RedisGetJobHistoryCall(jobID) ==
    /\ RedisInUse
    /\ \E up \in BOOLEAN :
          LET r == RedisGetJobHistory(redis.history, jobID, up)
          IN repoOut' = [op |-> "GetJobHistory", store |-> "redis", jobID |-> jobID,
                         entries |-> r.entries, err |-> r.err]
    /\ UNCHANGED <<jobs, history, batches, jobSeq, batchSeq, now, batch, ctxCancelled,
                   resp, valOut, listOut, redis, mu, memCalls>>

\* the jobs handed to Create: two with one ID, one with another
JobInputs ==
    {[ID |-> JobUUID(1), SourceURL |-> "a", Status |-> StatusProgress, Progress |-> 0,
      CreatedAt |-> 0, UpdatedAt |-> 0],
     [ID |-> JobUUID(1), SourceURL |-> "b", Status |-> StatusPaused, Progress |-> 50,
      CreatedAt |-> 1, UpdatedAt |-> 1],
     [ID |-> JobUUID(2), SourceURL |-> "a", Status |-> StatusProgress, Progress |-> 0,
      CreatedAt |-> 0, UpdatedAt |-> 0]}

\* the entries handed to AddJobHistory: one of a batch, one of no batch
HistoryEntryInputs ==
    {[Timestamp |-> 0, Action |-> BatchActionStart, BatchID |-> BatchUUID(1),
      Status |-> "created", batch_size |-> 1],
     [Timestamp |-> 1, Action |-> BatchActionPause, BatchID |-> "",
      Status |-> "paused", batch_size |-> 0]}

----------------------------------------------------------------------------
(* MemoryRepository under concurrent callers: every method takes mu, the    *)
(* writing ones with Lock, the reading ones with RLock, and releases it on  *)
(* return                                                                   *)

Goroutines == 1..MaxGoroutines

\* the zero sync.RWMutex: no writer, no writer waiting for readers, no readers
NewRWMutex == [writer |-> 0, pending |-> 0, readers |-> {}]

\* a goroutine that has not called the store
NoCall == [pc |-> "idle", op |-> "", job |-> NoJob, jobID |-> "", err |-> NoErr,
           got |-> NoJob, list |-> <<>>, snap |-> <<>>]

NoCalls == [g \in Goroutines |-> NoCall]

IsWrite(op) == op \in {"Create", "Update", "Delete"}

\* faulty variant of CanRLock: a reader enters while a writer holds the lock
CanRLockWhileWriting(m) == m.pending = 0

\* r.mu.RLock() returns: no writer holds the lock and none waits for it
CanRLock(m) == m.writer = 0 /\ m.pending = 0

\* r.mu.Lock() passes the writers' gate: no other writer holds or waits
CanLock(m) == m.writer = 0 /\ m.pending = 0

\* the memCalls the goroutines make: two jobs of one ID, and the memCalls on that ID
MemCallInputs ==
    {[op |-> "Create", job |-> j, jobID |-> j.ID] :
        j \in {x \in JobInputs : x.ID = JobUUID(1)}}
    \cup {[op |-> "Update", job |-> j, jobID |-> j.ID] :
             j \in {x \in JobInputs : x.ID = JobUUID(1) /\ x.Status = StatusPaused}}
    \cup {[op |-> "Delete", job |-> NoJob, jobID |-> JobUUID(1)],
          [op |-> "Get", job |-> NoJob, jobID |-> JobUUID(1)],
          [op |-> "List", job |-> NoJob, jobID |-> ""]}

\* Create, Update, Delete: r.mu.Lock(); with readers inside the writer waits
Lock(g, c) ==
    /\ memCalls[g].pc = "idle"
    /\ IsWrite(c.op)
    /\ CanLock(mu)
    /\ mu' = IF mu.readers = {} THEN [mu EXCEPT !.writer = g]
             ELSE [mu EXCEPT !.pending = g]
    /\ memCalls' = [memCalls EXCEPT ![g] =
                    [NoCall EXCEPT !.pc = IF mu.readers = {} THEN "check" ELSE "wait",
                                   !.op = c.op, !.job = c.job, !.jobID = c.jobID,
                                   !.snap = jobs]]
    /\ UNCHANGED <<jobs, history, batches, jobSeq, batchSeq, now, batch, ctxCancelled,
                   resp, valOut, listOut, repoOut, redis>>

\* the last reader has left: the waiting writer holds the lock
LockGranted(g) ==
    /\ memCalls[g].pc = "wait"
    /\ mu.pending = g
    /\ mu.readers = {}
    /\ mu' = [mu EXCEPT !.writer = g, !.pending = 0]
    /\ memCalls' = [memCalls EXCEPT ![g].pc = "check", ![g].snap = jobs]
    /\ UNCHANGED <<jobs, history, batches, jobSeq, batchSeq, now, batch, ctxCancelled,
                   resp, valOut, listOut, repoOut, redis>>

\* Get, List: r.mu.RLock()
RLock(g, c) ==
    /\ memCalls[g].pc = "idle"
    /\ ~IsWrite(c.op)
    /\ CanRLock(mu)
    /\ mu' = [mu EXCEPT !.readers = @ \cup {g}]
    /\ memCalls' = [memCalls EXCEPT ![g] =
                    [NoCall EXCEPT !.pc = IF c.op = "List" THEN "range" ELSE "check",
                                   !.op = c.op, !.job = c.job, !.jobID = c.jobID,
                                   !.snap = jobs]]
    /\ UNCHANGED <<jobs, history, batches, jobSeq, batchSeq, now, batch, ctxCancelled,
                   resp, valOut, listOut, repoOut, redis>>

\* the existence test of Create, Update and Delete
Check(g) ==
    /\ memCalls[g].pc = "check"
    /\ IsWrite(memCalls[g].op)
    /\ LET exists == memCalls[g].jobID \in DOMAIN jobs
           err == CASE memCalls[g].op = "Create" /\ exists ->
                          Errorf("job already exists with ID")
                    [] memCalls[g].op # "Create" /\ ~exists ->
                          Errorf("job not found with ID")
                    [] OTHER -> NoErr
       IN memCalls' = [memCalls EXCEPT ![g].err = err,
                                 ![g].pc = IF err # NoErr THEN "unlock" ELSE "write"]
    /\ UNCHANGED <<jobs, history, batches, jobSeq, batchSeq, now, batch, ctxCancelled,
                   resp, valOut, listOut, repoOut, redis, mu>>

\* r.jobs[job.ID] = job, or delete(r.jobs, jobID)
Write(g) ==
    /\ memCalls[g].pc = "write"
    /\ jobs' = IF memCalls[g].op = "Delete"
               THEN [k \in DOMAIN jobs \ {memCalls[g].jobID} |-> jobs[k]]
               ELSE [k \in DOMAIN jobs \cup {memCalls[g].jobID} |->
                        IF k = memCalls[g].jobID THEN memCalls[g].job ELSE jobs[k]]
    /\ memCalls' = [memCalls EXCEPT ![g].pc = "unlock"]
    /\ UNCHANGED <<history, batches, jobSeq, batchSeq, now, batch, ctxCancelled,
                   resp, valOut, listOut, repoOut, redis, mu>>

\* Get: job, exists := r.jobs[jobID]
GetRead(g) ==
    /\ memCalls[g].pc = "check"
    /\ memCalls[g].op = "Get"
    /\ memCalls' = [memCalls EXCEPT ![g].got = MemGet(jobs, memCalls[g].jobID),
                                 ![g].pc = "unlock"]
    /\ UNCHANGED <<jobs, history, batches, jobSeq, batchSeq, now, batch, ctxCancelled,
                   resp, valOut, listOut, repoOut, redis, mu>>

\* List: one turn of the range over r.jobs, or its end
ListRange(g) ==
    /\ memCalls[g].pc = "range"
    /\ LET listed == {memCalls[g].list[i].ID : i \in 1..Len(memCalls[g].list)}
       IN IF DOMAIN jobs \subseteq listed
          THEN memCalls' = [memCalls EXCEPT ![g].pc = "unlock"]
          ELSE \E id \in DOMAIN jobs \ listed :
                  memCalls' = [memCalls EXCEPT ![g].list = Append(@, jobs[id])]
    /\ UNCHANGED <<jobs, history, batches, jobSeq, batchSeq, now, batch, ctxCancelled,
                   resp, valOut, listOut, repoOut, redis, mu>>

\* defer r.mu.Unlock()
Unlock(g) ==
    /\ memCalls[g].pc = "unlock"
    /\ IsWrite(memCalls[g].op)
    /\ mu' = [mu EXCEPT !.writer = 0]
    /\ memCalls' = [memCalls EXCEPT ![g].pc = "done"]
    /\ UNCHANGED <<jobs, history, batches, jobSeq, batchSeq, now, batch, ctxCancelled,
                   resp, valOut, listOut, repoOut, redis>>

\* defer r.mu.RUnlock()
RUnlock(g) ==
    /\ memCalls[g].pc = "unlock"
    /\ ~IsWrite(memCalls[g].op)
    /\ mu' = [mu EXCEPT !.readers = @ \ {g}]
    /\ memCalls' = [memCalls EXCEPT ![g].pc = "done"]
    /\ UNCHANGED <<jobs, history, batches, jobSeq, batchSeq, now, batch, ctxCancelled,
                   resp, valOut, listOut, repoOut, redis>>

----------------------------------------------------------------------------
(* BatchService.GetBatchResult and ListBatchResults, and the batches read *)

NoRepoOut == [op |-> "none"]

\* ProcessBatch has returned; the service takes the next invocation
BatchReturn ==
    /\ batch.pc = "done"
    /\ batchSeq < MaxBatches
    /\ batch' = IdleBatch
    /\ UNCHANGED <<jobs, history, batches, jobSeq, batchSeq, now, ctxCancelled, resp,
                   valOut, listOut, repoOut, redis, mu, memCalls>>

GetBatchResultCall(batchID) ==
    /\ \E up \in BOOLEAN :
          LET r == GetBatchResult(batches, batchID, up)
          IN repoOut' = [op |-> "GetBatchResult", batchID |-> batchID, up |-> up,
                         result |-> r.result, err |-> r.err]
    /\ UNCHANGED <<jobs, history, batches, jobSeq, batchSeq, now, batch, ctxCancelled,
                   resp, valOut, listOut, redis, mu, memCalls>>

ListBatchResultsCall(filter) ==
    /\ \E up \in BOOLEAN, keys \in Orders(DOMAIN batches) :
          LET r == ListBatchResults(batches, filter, keys, up)
          IN repoOut' = [op |-> "ListBatchResults", filter |-> filter, up |-> up,
                         results |-> r.results, err |-> r.err]
    /\ UNCHANGED <<jobs, history, batches, jobSeq, batchSeq, now, batch, ctxCancelled,
                   resp, valOut, listOut, redis, mu, memCalls>>

\* the operations dispatched in the batch-store scenario
StoreOps ==
    {[Action |-> BatchActionStart, JobIDs |-> <<>>, SourceURLs |-> <<"a">>],
     [Action |-> BatchActionStart, JobIDs |-> <<>>, SourceURLs |-> <<"a", "b">>],
     [Action |-> BatchActionPause, JobIDs |-> <<JobUUID(1)>>, SourceURLs |-> <<>>],
     [Action |-> BatchActionPause, JobIDs |-> <<JobUUID(1), GhostID>>, SourceURLs |-> <<>>],
     [Action |-> BatchActionStop, JobIDs |-> <<GhostID>>, SourceURLs |-> <<>>],
     [Action |-> BatchActionRetry, JobIDs |-> <<GhostID, JobUUID(1)>>, SourceURLs |-> <<>>]}

BatchIDInputs == {BatchUUID(n) : n \in 1..MaxBatches} \cup {GhostID}

BatchFilterInputs ==
    {NoBatchFilter}
    \cup {[NoBatchFilter EXCEPT !.Status = c] : c \in {"success", "partial", "failed", "bogus"}}
    \cup {[NoBatchFilter EXCEPT !.JobIDs = ids] :
            ids \in {<<JobUUID(1)>>, <<JobUUID(1), GhostID>>, <<GhostID>>, <<"N/A">>}}
    \cup {[NoBatchFilter EXCEPT !.Status = "partial", !.JobIDs = <<JobUUID(1)>>],
          [NoBatchFilter EXCEPT !.Status = "success", !.JobIDs = <<JobUUID(1)>>]}
    \cup {[NoBatchFilter EXCEPT !.StartTime = 1],
          [NoBatchFilter EXCEPT !.EndTime = 0],
          [NoBatchFilter EXCEPT !.StartTime = 1, !.Status = "success"]}

----------------------------------------------------------------------------
(* A caller asks whether the error code of a response can be retried *)

\* the fourteen codes of ErrorStatusMap and two that it does not hold
ErrorCodeInputs == DOMAIN ErrorStatusMap \cup {"", "unknown_code"}

IsRetryableErrorCall(code) ==
    /\ repoOut' = [op |-> "IsRetryableError", code |-> code,
                   retryable |-> IsRetryableError(code)]
    /\ UNCHANGED <<jobs, history, batches, jobSeq, batchSeq, now, batch, ctxCancelled,
                   resp, valOut, listOut, redis, mu, memCalls>>

----------------------------------------------------------------------------
(* ListJobs over jobs whose strings differ in letter case *)

\* jobs another path wrote to the store: IDs, URLs and statuses in both cases
CaseJobs ==
    {[ID |-> "j1", SourceURL |-> "a", Status |-> StatusPaused, Progress |-> 0,
      CreatedAt |-> 0, UpdatedAt |-> 0],
     [ID |-> "J2", SourceURL |-> "A", Status |-> "paused", Progress |-> 0,
      CreatedAt |-> 0, UpdatedAt |-> 0],
     [ID |-> "j3", SourceURL |-> "b", Status |-> StatusFailed, Progress |-> 0,
      CreatedAt |-> 0, UpdatedAt |-> 0]}

\* one sort field: each string field, tokens in both cases, the flag both ways
CaseSortInputs ==
    {<<SortField(f, o, c)>> :
        f \in {"status", "Status", "source_url", "id"}, o \in {"", "desc", "DESC"},
        c \in BOOLEAN}

\* a request with sort_by given four times: one field more than MaxSortFields
LongSortInputs ==
    {<<SortField("status", "asc", FALSE), SortField("source_url", "asc", FALSE),
       SortField("progress", "asc", FALSE), SortField("id", "desc", FALSE)>>}

----------------------------------------------------------------------------
(* EncryptionService.GetJobsStatusSummary *)

\* the seconds of a day and of a week
Day == 86400
Week == 604800

\* a quotient of two float64: NaN when both are zero
Float64Quotient(a, b) == [num |-> a, den |-> b, NaN |-> a = 0 /\ b = 0]

\* faulty variant of RecentJobs: the time of the last update is compared
RecentJobsByUpdate(listed, since) ==
    Cardinality({i \in 1..Len(listed) : listed[i].UpdatedAt > since})

\* the jobs counted by the loop as created after since
RecentJobs(listed, since) ==
    Cardinality({i \in 1..Len(listed) : listed[i].CreatedAt > since})

\* listed is what repository.List returned; t is time.Now().Unix()
GetJobsStatusSummary(listed, t) ==
    LET n == Len(listed)
        keys == Statuses \cup {listed[i].Status : i \in 1..n}
        completed == {i \in 1..n : listed[i].Status = StatusCompleted}
        dayAgo == t - Day
        weekAgo == t - Week
        sum(f(_), S) ==
            LET RECURSIVE acc(_)
                acc(T) == IF T = {} THEN 0
                          ELSE LET i == CHOOSE x \in T : TRUE IN f(i) + acc(T \ {i})
            IN acc(S)
        progress(i) == listed[i].Progress
        took(i) == listed[i].UpdatedAt - listed[i].CreatedAt
        by_status == [st \in keys |-> Cardinality({i \in 1..n : listed[i].Status = st})]
    IN [total |-> n,
        by_status |-> by_status,
        statistics |->
            [avg_completion_time |->
                 IF Cardinality(completed) > 0
                 THEN Float64Quotient(sum(took, completed), Cardinality(completed))
                 ELSE Float64Quotient(0, 1),
             success_rate |-> IF n > 0
                              THEN Float64Quotient(Cardinality(completed) * 100, n)
                              ELSE Float64Quotient(0, 1),
             total_completed |-> Cardinality(completed),
             total_failed |-> by_status[StatusFailed],
             avg_progress |-> Float64Quotient(sum(progress, 1..n), n),
             jobs_last_24h |-> RecentJobs(listed, dayAgo),
             jobs_last_week |-> RecentJobs(listed, weekAgo)],
        latest_jobs |-> SubSeq(listed, 1, IF 5 < n THEN 5 ELSE n)]

GetJobsStatusSummaryCall ==
    /\ \E listed \in MemList(jobs) :
          repoOut' = [op |-> "GetJobsStatusSummary", now |-> now, err |-> NoErr,
                      summary |-> GetJobsStatusSummary(listed, now)]
    /\ UNCHANGED <<jobs, history, batches, jobSeq, batchSeq, now, batch, ctxCancelled,
                   resp, valOut, listOut, redis, mu, memCalls>>

\* time passes: a day or a week, once each
Sleep(d) ==
    /\ IF d = Day THEN now % Week < Day ELSE now < Week
    /\ now' = now + d
    /\ UNCHANGED <<jobs, history, batches, jobSeq, batchSeq, batch, ctxCancelled, resp,
                   valOut, listOut, repoOut, redis, mu, memCalls>>

----------------------------------------------------------------------------
(* BatchHandler.ProcessBatch: the HTTP entry of the batch orchestrator *)

\* the bound operation is refused when it has no job IDs, else handed to
\* BatchService.ProcessBatch
BatchHandlerProcessBatch(op) ==
    IF Len(op.JobIDs) = 0
    THEN /\ batch.pc = "idle"
         /\ resp' = [NoResp EXCEPT !.kind = "batch", !.code = StatusBadRequest,
                                   !.err = "No job IDs provided"]
         /\ UNCHANGED <<jobs, history, batches, jobSeq, batchSeq, now, batch,
                        ctxCancelled, valOut, listOut, repoOut, redis, mu, memCalls>>
    ELSE ProcessBatchBegin(op)

\* the request bodies: each action in a form that validation accepts, and
\* two that it refuses
HandlerOps ==
    {[Action |-> BatchActionStart, JobIDs |-> <<>>, SourceURLs |-> <<"a">>],
     [Action |-> BatchActionStart, JobIDs |-> <<>>, SourceURLs |-> <<"a", "b">>],
     [Action |-> BatchActionStart, JobIDs |-> <<JobUUID(1)>>, SourceURLs |-> <<"a">>],
     [Action |-> BatchActionPause, JobIDs |-> <<>>, SourceURLs |-> <<>>]}
    \cup {[Action |-> a, JobIDs |-> ids, SourceURLs |-> <<>>] :
             a \in BatchActions \ {BatchActionStart},
             ids \in {<<JobUUID(1)>>, <<JobUUID(1), GhostID>>}}

----------------------------------------------------------------------------
(* Specifications *)

Init ==
    /\ jobs = << >>
    /\ history = << >>
    /\ batches = << >>
    /\ jobSeq = 0
    /\ batchSeq = 0
    /\ now = 0
    /\ batch = IdleBatch
    /\ ctxCancelled = FALSE
    /\ resp = NoResp
    /\ valOut = NoValOut
    /\ listOut = NoListOut
    /\ repoOut = NoRepoOut
    /\ redis = EmptyRedis
    /\ mu = NewRWMutex
    /\ memCalls = NoCalls

\* the batch orchestrator; single starts and outside writes come between invocations
Next ==
    \/ \E u \in SourceURLInputs : batch.pc = "idle" /\ StartEncryptionHandler(u)
    \/ \E id \in DOMAIN jobs, st \in Statuses : batch.pc = "idle" /\ RepoUpdate(id, st)
    \/ \E op \in BatchOps : ProcessBatchBegin(op)
    \/ ProcessBatchStartItem
    \/ ProcessBatchJobItem
    \/ ProcessBatchStore

Spec == Init /\ [][Next]_vars

\* one invocation whose caller may cancel its context at any moment
CancelOps ==
    {op \in ValidBatchOps :
        /\ \A i \in 1..Len(op.JobIDs) : op.JobIDs[i] \in {JobUUID(1), GhostID}
        /\ \A i \in 1..Len(op.SourceURLs) : op.SourceURLs[i] = "a"}

NextCancel ==
    \/ \E u \in SourceURLInputs : batch.pc = "idle" /\ StartEncryptionHandler(u)
    \/ \E id \in DOMAIN jobs, st \in Statuses : batch.pc = "idle" /\ RepoUpdate(id, st)
    \/ \E op \in CancelOps : ProcessBatchBegin(op)
    \/ ProcessBatchStartItem
    \/ ProcessBatchJobItem
    \/ ProcessBatchStore
    \/ CtxCancel

SpecCancel == Init /\ [][NextCancel]_vars

\* the single-job requests
NextLifecycle ==
    \/ \E u \in SourceURLInputs \cup {""} : StartEncryptionHandler(u)
    \/ \E id \in DOMAIN jobs, st \in Statuses : RepoUpdate(id, st)
    \/ \E id \in JobIDInputs \cup {""} : GetStatusHandler(id)
    \/ \E id \in JobIDInputs \cup {""} : PauseJobHandler(id)
    \/ \E id \in JobIDInputs \cup {""} : ResumeJobHandler(id)
    \/ \E id \in JobIDInputs \cup {""} : StopJobHandler(id)

SpecLifecycle == Init /\ [][NextLifecycle]_vars

\* validation alone
NextValidate == \E op \in ValOps : ValidateCall(op)

SpecValidate == Init /\ [][NextValidate]_vars

\* the query engine over a store filled by single starts and outside writes;
\* a behaviour fills the store and then observes one ListJobs call
NextQuery ==
    \/ ~listOut.called /\ \E u \in SourceURLInputs : StartEncryptionHandler(u)
    \/ ~listOut.called /\ \E id \in DOMAIN jobs : RepoUpdate(id, StatusPaused)
    \/ ~listOut.called /\ \E id \in DOMAIN jobs : RepoUpdateProgress(id, 50)
    \/ ~listOut.called /\ Tick
    \/ ~listOut.called /\ \E q \in QueryInputs :
          ListJobsCall(q.page[1], q.page[2], q.filter, q.fields)

SpecQuery == Init /\ [][NextQuery]_vars

\* batches dispatched one after another, the clock moving between them, and
\* one read of the batch store
NextBatches ==
    \/ repoOut.op = "none" /\ \E op \in StoreOps : ProcessBatchBegin(op)
    \/ repoOut.op = "none" /\ ProcessBatchStartItem
    \/ repoOut.op = "none" /\ ProcessBatchJobItem
    \/ repoOut.op = "none" /\ ProcessBatchStore
    \/ repoOut.op = "none" /\ BatchReturn
    \/ repoOut.op = "none" /\ batch.pc = "idle" /\ Tick
    \/ repoOut.op = "none" /\ \E id \in BatchIDInputs : GetBatchResultCall(id)
    \/ repoOut.op = "none" /\ \E f \in BatchFilterInputs : ListBatchResultsCall(f)

SpecBatches == Init /\ [][NextBatches]_vars

\* calls on one of the two job stores, in any order
NextRepo ==
    \/ \E job \in JobInputs : MemCreateCall(job)
    \/ \E job \in JobInputs : RedisCreateCall(job)
    \/ \E id \in {JobUUID(1), JobUUID(2)}, entry \in HistoryEntryInputs :
          MemAddJobHistoryCall(id, entry)
    \/ \E id \in {JobUUID(1), JobUUID(2)}, entry \in HistoryEntryInputs :
          RedisAddJobHistoryCall(id, entry)
    \/ \E id \in {JobUUID(1), JobUUID(2)} : MemGetJobHistoryCall(id)
    \/ \E id \in {JobUUID(1), JobUUID(2)} : RedisGetJobHistoryCall(id)

SpecRepo == Init /\ [][NextRepo]_vars

\* goroutines calling the in-memory store concurrently, one call each
NextConcurrent ==
    \/ \E g \in Goroutines, c \in MemCallInputs : Lock(g, c)
    \/ \E g \in Goroutines : LockGranted(g)
    \/ \E g \in Goroutines, c \in MemCallInputs : RLock(g, c)
    \/ \E g \in Goroutines : Check(g)
    \/ \E g \in Goroutines : Write(g)
    \/ \E g \in Goroutines : GetRead(g)
    \/ \E g \in Goroutines : ListRange(g)
    \/ \E g \in Goroutines : Unlock(g)
    \/ \E g \in Goroutines : RUnlock(g)

SpecConcurrent == Init /\ [][NextConcurrent]_vars

\* the single-job requests and, once, the retry question on an error code
NextErrors ==
    \/ repoOut.op = "none" /\ NextLifecycle
    \/ repoOut.op = "none" /\ \E code \in ErrorCodeInputs : IsRetryableErrorCall(code)

SpecErrors == Init /\ [][NextErrors]_vars

\* the store is filled with jobs that differ in letter case, then listed once
NextSort ==
    \/ ~listOut.called /\ \E job \in CaseJobs : MemCreateCall(job)
    \/ ~listOut.called /\ \E fields \in CaseSortInputs \cup LongSortInputs :
          ListJobsCall(Cardinality(CaseJobs), 0, NoFilter, fields)

SpecSort == Init /\ [][NextSort]_vars

\* jobs are started and written while days pass, then the summary is taken
NextSummary ==
    \/ repoOut.op = "none" /\ StartEncryptionHandler("a")
    \/ repoOut.op = "none" /\ \E id \in DOMAIN jobs, st \in Statuses : RepoUpdate(id, st)
    \/ repoOut.op = "none" /\ Tick
    \/ repoOut.op = "none" /\ \E d \in {Day, Week} : Sleep(d)
    \/ repoOut.op = "none" /\ GetJobsStatusSummaryCall

SpecSummary == Init /\ [][NextSummary]_vars

\* one invocation at a time, while another path writes statuses to the store
\* at any moment, between two items included
NextRace ==
    \/ batch.pc = "idle" /\ StartEncryptionHandler("a")
    \/ \E id \in DOMAIN jobs, st \in Statuses : RepoUpdate(id, st)
    \/ \E op \in CancelOps : ProcessBatchBegin(op)
    \/ ProcessBatchStartItem
    \/ ProcessBatchJobItem
    \/ ProcessBatchStore

SpecRace == Init /\ [][NextRace]_vars

\* batch requests through the HTTP handler, one after another; jobs come from
\* single starts.  No start operation gets past the handler, so the loop over
\* source URLs has no step here.
NextHandler ==
    \/ batch.pc = "idle" /\ StartEncryptionHandler("a")
    \/ \E id \in DOMAIN jobs, st \in Statuses : batch.pc = "idle" /\ RepoUpdate(id, st)
    \/ \E op \in HandlerOps : BatchHandlerProcessBatch(op)
    \/ ProcessBatchJobItem
    \/ ProcessBatchStore
    \/ BatchReturn

SpecHandler == Init /\ [][NextHandler]_vars

----------------------------------------------------------------------------
(* Properties *)

\* C1: for every stored job, in each of the five statuses, CanPause succeeds iff
\* the status is IN_PROGRESS and returns a state error otherwise; the pause
\* request answers accordingly (200 iff the job it fetched was IN_PROGRESS, 409
\* with job_state_error otherwise).
C1_CanPauseIffInProgress ==
    /\ \A id \in DOMAIN jobs :
          /\ jobs[id].Status \in Statuses
          /\ (CanPause(jobs[id]) = NoErr) <=> (jobs[id].Status = "IN_PROGRESS")
          /\ jobs[id].Status # "IN_PROGRESS" => IsJobStateError(CanPause(jobs[id]))
    /\ (resp.kind = "pause" /\ resp.seen \in Statuses) =>
          /\ (resp.code = StatusOK) <=> (resp.seen = "IN_PROGRESS")
          /\ resp.seen # "IN_PROGRESS" =>
                resp.code = StatusConflict /\ resp.err = ErrCodeJobState

\* a pause request was refused for a job found PENDING
C1_Witness ==
    /\ resp.kind = "pause"
    /\ resp.seen = "PENDING"
    /\ resp.code = StatusConflict
    /\ \E id \in DOMAIN jobs : jobs[id].Status = "IN_PROGRESS"

\* C2: after a pause, resume or stop reported as successful (a 200 answer of
\* the single-job request, or a batch item placed in successful), the status
\* read back from the store is PAUSED, IN_PROGRESS or FAILED respectively.
C2_ResultStatus ==
    LET result(action) ==
            CASE action = "pause" -> "PAUSED"
              [] action = "resume" -> "IN_PROGRESS"
              [] action = "stop" -> "FAILED"
    IN /\ (resp.kind \in {"pause", "resume", "stop"} /\ resp.code = StatusOK) =>
             resp.readback = result(resp.kind)
       /\ batch.op.Action \in {"pause", "resume", "stop"} =>
             \A k \in DOMAIN batch.items :
                batch.items[k].ok => batch.items[k].readback = result(batch.op.Action)

\* C3: validateBatchOperation returns no error iff the action is one of the
\* five and exactly the list of the action is supplied, non-empty and without
\* an empty entry (source_urls for start, job_ids otherwise), the other list
\* being empty.
C3_ValidationIff ==
    valOut.called =>
        LET op == valOut.op
            noEmpty(list) == \A i \in 1..Len(list) : list[i] # ""
            legal ==
                /\ op.Action \in {"start", "pause", "resume", "stop", "retry"}
                /\ IF op.Action = "start"
                   THEN Len(op.SourceURLs) > 0 /\ noEmpty(op.SourceURLs) /\ Len(op.JobIDs) = 0
                   ELSE Len(op.JobIDs) > 0 /\ noEmpty(op.JobIDs) /\ Len(op.SourceURLs) = 0
        IN (Len(valOut.errors) = 0) <=> legal

\* a pause with both lists supplied was rejected
C3_Witness ==
    /\ valOut.called
    /\ valOut.op.Action = "pause"
    /\ valOut.op.JobIDs = <<"j1">>
    /\ valOut.op.SourceURLs = <<"a">>
    /\ Len(valOut.errors) > 0

\* C4: a ProcessBatch call that rejects its operation at validation changes
\* nothing: no job created or modified, no history entry, no batch result, no
\* ID drawn, no invocation started.
C4_RejectionChangesNothing ==
    [][(\E op \in InvalidBatchOps :
            Len(validateBatchOperation(op)) > 0 /\ ProcessBatchBegin(op))
        => UNCHANGED <<jobs, history, batches, jobSeq, batchSeq, batch>>]_vars

\* an operation was rejected at validation while the store held a job
C4_Witness ==
    /\ resp.kind = "batch"
    /\ resp.err = "validation failed"
    /\ Len(resp.errors) > 0
    /\ DOMAIN jobs # {}

\* C5: the loop never stops at a failing item: every item processed is in
\* exactly one of successful and failed, the invocation ends only when every
\* requested item is processed, and then len(successful) + len(failed) =
\* total_jobs; a pause batch of 3 IDs of which exactly one is not pausable
\* ends with 2 successful, 1 failed, total_jobs = 3.
C5_EveryItemInOneList ==
    LET items == batch.items
        oks == {k \in DOMAIN items : items[k].ok}
        illegal == {k \in DOMAIN items : items[k].seen # "IN_PROGRESS"}
    IN /\ Len(batch.Successful) = Cardinality(oks)
       /\ Len(batch.Failed) = Cardinality(DOMAIN items \ oks)
       /\ batch.pc = "items" => Len(items) = batch.idx - 1
       /\ batch.pc = "done" =>
             /\ Len(items) = batch.totalJobs
             /\ Len(batch.Successful) + Len(batch.Failed) = batch.totalJobs
             /\ batch.BatchID \in DOMAIN batches =>
                   LET summary == StoredBatchResult(batch.BatchID).Summary
                   IN /\ summary.TotalJobs = batch.totalJobs
                      /\ summary.SuccessCount + summary.FailureCount = summary.TotalJobs
             /\ (batch.op.Action = "pause" /\ batch.totalJobs = 3
                    /\ Cardinality(illegal) = 1) =>
                   Len(batch.Successful) = 2 /\ Len(batch.Failed) = 1

\* a stored pause batch of 3 IDs whose first item failed and whose other two succeeded
C5_Witness ==
    /\ batch.pc = "done"
    /\ batch.op.Action = "pause"
    /\ batch.totalJobs = 3
    /\ batch.BatchID \in DOMAIN batches
    /\ batch.Failed # <<>>
    /\ batch.Failed[1].JobID = batch.op.JobIDs[1]
    /\ Len(batch.Successful) = 2

\* C6: the k-th item processed is the k-th item of the input list, and the
\* entries of successful and of failed are those of the succeeding and of the
\* failing items, each in input order.
C6_InputOrder ==
    LET items == batch.items
        start == batch.op.Action = "start"
        input == IF start THEN batch.op.SourceURLs ELSE batch.op.JobIDs
        positions == [k \in 1..Len(items) |-> k]
        okAt == SelectSeq(positions, LAMBDA k : items[k].ok)
        failedAt == SelectSeq(positions, LAMBDA k : ~items[k].ok)
    IN /\ Len(items) <= Len(input)
       /\ \A k \in 1..Len(items) : items[k].index = k /\ items[k].item = input[k]
       /\ batch.Successful =
             [n \in 1..Len(okAt) |-> IF start THEN items[okAt[n]].created
                                             ELSE items[okAt[n]].item]
       /\ [n \in 1..Len(batch.Failed) |-> batch.Failed[n].JobID] =
             [n \in 1..Len(failedAt) |-> IF start THEN "N/A" ELSE items[failedAt[n]].item]

\* a finished batch with two different successful IDs around a failed one
C6_Witness ==
    /\ batch.pc = "done"
    /\ batch.op.JobIDs = <<"j1", "zz", "j2">>
    /\ batch.Successful = <<"j1", "j2">>
    /\ Len(batch.Failed) = 1

\* C7: a retry item is accepted iff its job exists with status FAILED; an
\* accepted retry adds exactly one job, under a new ID, with the source of the
\* original, and leaves every stored record (the original included) as it
\* was; a refused retry leaves the store as it was.
C7_Retry ==
    [][(batch.pc = "items" /\ batch.op.Action = "retry" /\ batch'.idx = batch.idx + 1) =>
          LET id == batch.op.JobIDs[batch.idx]
              rec == batch'.items[batch.idx]
              new == DOMAIN jobs' \ DOMAIN jobs
          IN /\ rec.ok <=> (id \in DOMAIN jobs /\ jobs[id].Status = "FAILED")
             /\ \A j \in DOMAIN jobs : j \in DOMAIN jobs' /\ jobs'[j] = jobs[j]
             /\ IF rec.ok
                THEN /\ Cardinality(new) = 1
                     /\ \A n \in new : /\ n # id
                                       /\ n = rec.created
                                       /\ jobs'[n].ID = n
                                       /\ jobs'[n].SourceURL = jobs[id].SourceURL
                ELSE new = {}]_vars

\* a retry item was accepted: its job is still FAILED and the new job is stored
C7_Witness ==
    /\ batch.op.Action = "retry"
    /\ \E k \in DOMAIN batch.items :
          /\ batch.items[k].ok
          /\ batch.items[k].readback = "FAILED"
          /\ batch.items[k].created \in DOMAIN jobs
          /\ batch.items[k].created # batch.items[k].item

\* C8: once the caller's context is cancelled, no further item is processed.
C8_NoItemAfterCancel ==
    \A k \in DOMAIN batch.items : ~batch.items[k].cancelled

\* C9: the result of ListJobs is the same for every order in which the store
\* may return the same jobs.
C9_Deterministic ==
    listOut.called =>
        \A listed \in MemList(jobs) :
            LET r == ListJobs(listed, listOut.limit, listOut.offset, listOut.filter,
                              listOut.fields)
            IN r.err = listOut.err /\ r.jobs = listOut.jobs

\* C10: for every stored job, in each of the five statuses, CanResume succeeds
\* iff the status is PAUSED and returns a state error otherwise; the resume
\* request answers accordingly.
C10_CanResumeIffPaused ==
    /\ \A id \in DOMAIN jobs :
          /\ jobs[id].Status \in Statuses
          /\ (CanResume(jobs[id]) = NoErr) <=> (jobs[id].Status = "PAUSED")
          /\ jobs[id].Status # "PAUSED" => IsJobStateError(CanResume(jobs[id]))
    /\ (resp.kind = "resume" /\ resp.seen \in Statuses) =>
          /\ (resp.code = StatusOK) <=> (resp.seen = "PAUSED")
          /\ resp.seen # "PAUSED" =>
                resp.code = StatusConflict /\ resp.err = ErrCodeJobState

\* a resume request was refused for a job found IN_PROGRESS
C10_Witness ==
    /\ resp.kind = "resume"
    /\ resp.seen = "IN_PROGRESS"
    /\ resp.code = StatusConflict
    /\ \E id \in DOMAIN jobs : jobs[id].Status = "PAUSED"

\* C11: for every stored job, in each of the five statuses, CanStop succeeds
\* iff the status is neither COMPLETED nor FAILED, and it returns a state error
\* exactly when IsTerminal is true; the stop request answers accordingly.
C11_CanStopIffNotTerminal ==
    /\ \A id \in DOMAIN jobs :
          /\ (CanStop(jobs[id]) = NoErr) <=> (jobs[id].Status \notin {"COMPLETED", "FAILED"})
          /\ IsJobStateError(CanStop(jobs[id])) <=> IsTerminal(jobs[id])
    /\ (resp.kind = "stop" /\ resp.seen \in Statuses) =>
          /\ (resp.code = StatusOK) <=> (resp.seen \notin {"COMPLETED", "FAILED"})
          /\ resp.seen \in {"COMPLETED", "FAILED"} =>
                resp.code = StatusConflict /\ resp.err = ErrCodeJobState

\* a stop request was refused for a FAILED job while a PENDING job was stored
C11_Witness ==
    /\ resp.kind = "stop"
    /\ resp.seen = "FAILED"
    /\ resp.code = StatusConflict
    /\ \E id \in DOMAIN jobs : jobs[id].Status = "PENDING" /\ CanStop(jobs[id]) = NoErr

\* C12: every step that adds a job to the store (single start, batch start
\* item, retry item) adds exactly one record, under an ID the store did not
\* hold, with status IN_PROGRESS (never PENDING), progress 0 and the requested
\* source URL, and leaves the records already stored as they were.
C12_StartCreatesFreshJob ==
    [][DOMAIN jobs' # DOMAIN jobs =>
          LET new == DOMAIN jobs' \ DOMAIN jobs
              requested(n) ==
                  IF batch.pc = "items" /\ batch.op.Action = "start"
                  THEN {batch.op.SourceURLs[batch.idx]}
                  ELSE IF batch.pc = "items" /\ batch.op.Action = "retry"
                  THEN {jobs[batch.op.JobIDs[batch.idx]].SourceURL}
                  ELSE {u \in SourceURLInputs : StartEncryptionHandler(u)}
          IN /\ Cardinality(new) = 1
             /\ \A j \in DOMAIN jobs : j \in DOMAIN jobs' /\ jobs'[j] = jobs[j]
             /\ \A n \in new :
                   /\ jobs'[n].ID = n
                   /\ jobs'[n].Status = "IN_PROGRESS"
                   /\ jobs'[n].Progress = 0
                   /\ requested(n) # {}
                   /\ jobs'[n].SourceURL \in requested(n)]_vars

\* a start batch created two jobs, one per requested URL
C12_Witness ==
    /\ batch.op.Action = "start"
    /\ batch.op.SourceURLs = <<"a", "b">>
    /\ Len(batch.Successful) = 2
    /\ \A k \in 1..2 :
          /\ batch.Successful[k] \in DOMAIN jobs
          /\ jobs[batch.Successful[k]].SourceURL = batch.op.SourceURLs[k]
          /\ jobs[batch.Successful[k]].Status = "IN_PROGRESS"

\* C13: in the BatchResult that ProcessBatch returns (and stores),
\* total_jobs is the number of requested items (source URLs for start, job
\* IDs otherwise) whatever their outcomes, success_count = len(successful)
\* and failure_count = len(failed).
C13_SummaryCounts ==
    (batch.pc = "done" /\ resp.kind = "batch" /\ resp.err = "") =>
        /\ resp.id = batch.BatchID
        /\ resp.id \in DOMAIN batches
        /\ LET result == StoredBatchResult(resp.id)
               requested == IF batch.op.Action = "start" THEN Len(batch.op.SourceURLs)
                                                          ELSE Len(batch.op.JobIDs)
           IN /\ result.Summary.TotalJobs = requested
              /\ result.Summary.SuccessCount = Len(result.Successful)
              /\ result.Summary.FailureCount = Len(result.Failed)
              /\ result.Successful = batch.Successful
              /\ result.Failed = batch.Failed

\* a returned stop batch of 3 items with one success and two failures
C13_Witness ==
    /\ batch.pc = "done"
    /\ batch.op.Action = "stop"
    /\ resp.id \in DOMAIN batches
    /\ StoredBatchResult(resp.id).Summary.TotalJobs = 3
    /\ StoredBatchResult(resp.id).Summary.SuccessCount = 1
    /\ StoredBatchResult(resp.id).Summary.FailureCount = 2

\* C14: when storing the BatchResult fails, ProcessBatch returns an error and
\* no result, nothing is stored under the batch ID, and the work of the
\* invocation stays as it is: the step changes no job and no history, runs no
\* item again, and every job an item created is in the store, created once.
C14_StoreFailureKeepsWork ==
    [][(batch.pc = "items" /\ batch'.pc = "done"
            /\ resp'.err = "failed to store batch result") =>
          LET creating == {k \in DOMAIN batch.items : batch.items[k].created # ""}
          IN /\ resp'.kind = "batch"
             /\ resp'.id = ""
             /\ batch.BatchID \notin DOMAIN batches'
             /\ UNCHANGED <<jobs, history, jobSeq, batches>>
             /\ batch'.items = batch.items
             /\ Len(batch.items) = batch.totalJobs
             /\ \A k \in creating : batch.items[k].created \in DOMAIN jobs'
             /\ \A k, l \in creating :
                   batch.items[k].created = batch.items[l].created => k = l]_vars

\* a start batch created a job and then failed to store its result
C14_Witness ==
    /\ batch.pc = "done"
    /\ resp.err = "failed to store batch result"
    /\ batch.op.Action = "start"
    /\ Len(batch.Successful) = 2
    /\ \A k \in 1..2 : batch.Successful[k] \in DOMAIN jobs
    /\ batches = << >>

\* C15: every rejection of a lifecycle action is a typed state error with
\* the job ID, the job's current status, the attempted action and a message:
\* the errors of CanPause, CanResume and CanStop on every stored job, and the
\* error processJob returns for every pause, resume, stop or retry item whose
\* job exists and is refused.
C15_TypedRejections ==
    LET typed(e, id, status, action) ==
            /\ IsJobStateError(e)
            /\ e.JobID = id
            /\ e.CurrentState = status
            /\ e.Action = action
            /\ e.Message # ""
    IN /\ \A id \in DOMAIN jobs :
             /\ CanPause(jobs[id]) # NoErr =>
                    typed(CanPause(jobs[id]), id, jobs[id].Status, "pause")
             /\ CanResume(jobs[id]) # NoErr =>
                    typed(CanResume(jobs[id]), id, jobs[id].Status, "resume")
             /\ CanStop(jobs[id]) # NoErr =>
                    typed(CanStop(jobs[id]), id, jobs[id].Status, "stop")
       /\ batch.op.Action \in {"pause", "resume", "stop", "retry"} =>
             \A k \in DOMAIN batch.items :
                (~batch.items[k].ok /\ batch.items[k].seen \in Statuses) =>
                    typed(ErrorsAsJobStateError(batch.items[k].err), batch.items[k].item,
                          batch.items[k].seen, batch.op.Action)

\* C16: a lifecycle state error is mapped to 409 with code job_state_error
\* by GetHTTPStatusForError, by GetBatchErrorResponse and by the single-job
\* requests (HandleStateError), never to not-found or bad-request.
C16_StateErrorIsConflict ==
    /\ \A id \in DOMAIN jobs :
          \A e \in {CanPause(jobs[id]), CanResume(jobs[id]), CanStop(jobs[id])} :
             IsJobStateError(e) =>
                /\ GetHTTPStatusForError(e) = 409
                /\ GetBatchErrorResponse(e, e.Action).status = 409
                /\ GetBatchErrorResponse(e, e.Action).response.Errors[1].Code
                      = "job_state_error"
                /\ ErrorStatusMap["job_state_error"] = 409
    /\ (resp.kind \in {"pause", "resume", "stop"} /\ resp.seen \in Statuses
            /\ resp.code # StatusOK) =>
          /\ resp.code = 409
          /\ resp.err = "job_state_error"

\* a resume request for a COMPLETED job was answered with a conflict
C16_Witness ==
    /\ resp.kind = "resume"
    /\ resp.seen = "COMPLETED"
    /\ resp.code = StatusConflict
    /\ resp.err = ErrCodeJobState
    /\ GetHTTPStatusForError(CanResume(jobs[resp.id])) = StatusConflict

\* C17: validation reports every violated rule: the error list has one
\* entry for a missing or unsupported action and, for a supported action, one
\* for an empty list of its own kind, one for each empty element of that list
\* (carrying the element's index) and one for a supplied list of the other
\* kind.
C17_AllViolationsReported ==
    valOut.called =>
        LET op == valOut.op
            errors == valOut.errors
            start == op.Action = "start"
            supported == op.Action \in {"start", "pause", "resume", "stop", "retry"}
            own == IF start THEN op.SourceURLs ELSE op.JobIDs
            other == IF start THEN op.JobIDs ELSE op.SourceURLs
            ownField == IF start THEN "source_urls" ELSE "job_ids"
            otherField == IF start THEN "job_ids" ELSE "source_urls"
            empties == {i \in 1..Len(own) : own[i] = ""}
            count(P(_)) == Cardinality({n \in 1..Len(errors) : P(errors[n])})
            onAction(e) == e.Field = "action"
            onOwnList(e) == e.Field = ownField /\ e.Index = -1
            onOtherList(e) == e.Field = otherField /\ e.Index = -1
        IN /\ count(onAction) = IF supported THEN 0 ELSE 1
           /\ ~supported => Len(errors) = 1
           /\ supported =>
                 /\ count(onOwnList) = IF Len(own) = 0 THEN 1 ELSE 0
                 /\ count(onOtherList) = IF Len(other) > 0 THEN 1 ELSE 0
                 /\ \A i \in empties :
                       \E n \in 1..Len(errors) :
                          errors[n].Field = ownField /\ errors[n].Index = i - 1
                 /\ Len(errors) = (IF Len(own) = 0 THEN 1 ELSE 0) + Cardinality(empties)
                                    + (IF Len(other) > 0 THEN 1 ELSE 0)

\* a resume with two empty job IDs and a source URL got three errors
C17_Witness ==
    /\ valOut.called
    /\ valOut.op.Action = "resume"
    /\ valOut.op.JobIDs = <<"", "">>
    /\ valOut.op.SourceURLs = <<"a">>
    /\ Len(valOut.errors) = 3

\* C18: a job passes the filter iff its status equals the given status
\* (when given), created_at >= start_date (when non-zero), created_at <=
\* end_date (when non-zero), its source URL contains the given substring (when
\* given) and progress >= min_progress; a ListJobs call whose page takes in
\* everything returns exactly the stored jobs that pass.
C18_FilterIff ==
    (listOut.called /\ listOut.err = NoErr /\ listOut.offset = 0
        /\ listOut.limit >= Cardinality(DOMAIN jobs)) =>
        LET f == listOut.filter
            passes(j) ==
                /\ f.Status # "" => j.Status = f.Status
                /\ f.StartDate # 0 => j.CreatedAt >= f.StartDate
                /\ f.EndDate # 0 => j.CreatedAt <= f.EndDate
                /\ f.SourceURL # "" => Contains(j.SourceURL, f.SourceURL)
                /\ j.Progress >= f.MinProgress
            passing == {id \in DOMAIN jobs : passes(jobs[id])}
        IN /\ \A id \in DOMAIN jobs : matchesFilter(jobs[id], f) <=> passes(jobs[id])
           /\ {listOut.jobs[i].ID : i \in 1..Len(listOut.jobs)} = passing
           /\ Len(listOut.jobs) = Cardinality(passing)
           /\ \A i \in 1..Len(listOut.jobs) : listOut.jobs[i] = jobs[listOut.jobs[i].ID]

\* C19: the jobs a ListJobs call returns (its page taking in everything) are
\* the filtered jobs ordered lexicographically by the sort fields, the first
\* field first and each in its own direction, created_at descending when no
\* field is given; jobs that tie on every field keep the order in which the
\* store returned them.
C19_LexicographicStable ==
    (listOut.called /\ listOut.err = NoErr /\ listOut.offset = 0
        /\ listOut.limit >= Cardinality(DOMAIN jobs)) =>
        LET fields == IF listOut.fields = <<>>
                      THEN <<[Field |-> "created_at", Order |-> "desc",
                              CaseSensitive |-> FALSE]>>
                      ELSE listOut.fields
            out == listOut.jobs
            in == SelectSeq(listOut.listed, LAMBDA j : matchesFilter(j, listOut.filter))
            cmp(a, b, k) == IF LowerIs(fields[k].Order, "desc")
                            THEN 0 - FieldComparison(a, b, fields[k])
                            ELSE FieldComparison(a, b, fields[k])
            before(a, b) == \E k \in 1..Len(fields) :
                               /\ cmp(a, b, k) < 0
                               /\ \A m \in 1..(k - 1) : cmp(a, b, m) = 0
            tie(a, b) == \A k \in 1..Len(fields) : cmp(a, b, k) = 0
            pos(id) == CHOOSE i \in 1..Len(in) : in[i].ID = id
        IN /\ Len(out) = Len(in)
           /\ {out[i] : i \in 1..Len(out)} = {in[i] : i \in 1..Len(in)}
           /\ \A i, j \in 1..Len(out) :
                 i < j => /\ ~before(out[j], out[i])
                          /\ tie(out[i], out[j]) => pos(out[i].ID) < pos(out[j].ID)

\* sorted by status asc then created_at desc: two jobs of equal status that
\* the store returned oldest first come back newest first
C19_Witness ==
    /\ listOut.called
    /\ listOut.err = NoErr
    /\ listOut.fields = <<SortField("status", "asc", FALSE),
                          SortField("created_at", "desc", FALSE)>>
    /\ Len(listOut.listed) = 2
    /\ Len(listOut.jobs) = 2
    /\ listOut.listed[1].Status = listOut.listed[2].Status
    /\ listOut.listed[1].CreatedAt < listOut.listed[2].CreatedAt
    /\ listOut.jobs[1].CreatedAt > listOut.jobs[2].CreatedAt

\* C20: a ListJobs call in which some sort field has a name that is given and
\* is none of the six field names, or an order that is given and is neither
\* asc nor desc (letter case aside), returns an error that names the first
\* such value; the store's List has not been called and no job has been
\* listed, scanned or returned.
C20_InvalidSortRejectedBeforeRead ==
    listOut.called =>
        LET fs == listOut.fields
            lower(x) == ToLower(Bytes(x))
            badField(k) == fs[k].Field # ""
                           /\ lower(fs[k].Field) \notin {Bytes("created_at"), Bytes("updated_at"),
                                                         Bytes("progress"), Bytes("status"),
                                                         Bytes("source_url"), Bytes("id")}
            badOrder(k) == fs[k].Order # ""
                           /\ lower(fs[k].Order) \notin {Bytes("asc"), Bytes("desc")}
            bad == {k \in 1..Len(fs) : badField(k) \/ badOrder(k)}
        IN bad # {} =>
              LET k == CHOOSE m \in bad : \A n \in bad : m <= n
              IN /\ listOut.err # NoErr
                 /\ listOut.err.type = "wrapped"
                 /\ listOut.err.cause.Value = (IF badField(k) THEN fs[k].Field ELSE fs[k].Order)
                 /\ listOut.err.cause.Message = (IF badField(k) THEN "invalid sort field"
                                                                ELSE "invalid sort order")
                 /\ listOut.listCalls = 0
                 /\ listOut.listed = <<>>
                 /\ listOut.jobs = <<>>

\* a call whose second sort field has the order "up" is rejected while the
\* store holds jobs
C20_Witness ==
    /\ listOut.called
    /\ DOMAIN jobs # {}
    /\ Len(listOut.fields) = 2
    /\ listOut.fields[2].Order = "up"
    /\ listOut.err # NoErr
    /\ listOut.listCalls = 0

\* C21: for every limit > 0 and offset >= 0 a ListJobs call with valid sort
\* options returns, without an error or a crash, the items of the filtered,
\* sorted sequence from offset to min(offset + limit, length): nothing when
\* the offset is past the end, the remaining items when the limit reaches
\* past it.
C21_PaginationNeverFails ==
    (listOut.called /\ validateSortOptions(listOut.fields) = NoErr) =>
        LET seq == sortJobs(SelectSeq(listOut.listed,
                                      LAMBDA j : matchesFilter(j, listOut.filter)),
                            listOut.fields)
            upto == IF listOut.offset + listOut.limit < Len(seq)
                    THEN listOut.offset + listOut.limit ELSE Len(seq)
        IN /\ listOut.err = NoErr
           /\ listOut.jobs = [i \in 1..(IF upto > listOut.offset
                                         THEN upto - listOut.offset ELSE 0) |->
                                 seq[listOut.offset + i]]

C24_TimeRange ==
    (repoOut.op = "ListBatchResults" /\ repoOut.up) =>
        LET f == repoOut.filter
        IN \A i \in 1..Len(repoOut.results) :
              /\ f.StartTime # NilTime => repoOut.results[i].EndTime >= f.StartTime
              /\ f.EndTime # NilTime => repoOut.results[i].StartTime <= f.EndTime

C26_GetAbsentBatch ==
    [][(repoOut' # repoOut /\ repoOut'.op = "GetBatchResult") =>
          /\ batches' = batches /\ jobs' = jobs /\ history' = history
          /\ repoOut'.batchID \notin DOMAIN batches =>
                /\ repoOut'.result = NilBatchResult
                /\ repoOut'.err # NoErr
                /\ repoOut'.up => repoOut'.err = Errorf("batch result not found")
      ]_vars

\* an ID never handed out is asked for while the store holds a result
C26_Witness ==
    /\ repoOut.op = "GetBatchResult"
    /\ repoOut.batchID = GhostID
    /\ repoOut.up
    /\ DOMAIN batches # {}
    /\ repoOut.result = NilBatchResult
    /\ repoOut.err.Message = "batch result not found"

\* C27: each item of a batch start that creates a job puts the job's ID at
\* the end of the successful list and leaves the failed list alone, whether
\* or not the history entry is taken; when it is taken, it is one entry, at
\* the end of that job's history, tagged with the batch's ID and with
\* batch_size = total_jobs, and no other history changes; the loop goes on to
\* the next item either way.
C27_HistoryBestEffort ==
    [][(batch.pc = "items" /\ batch.op.Action = BatchActionStart
           /\ DOMAIN jobs' # DOMAIN jobs) =>
          \E id \in DOMAIN jobs' \ DOMAIN jobs :
             /\ DOMAIN jobs' = DOMAIN jobs \cup {id}
             /\ batch'.Successful = Append(batch.Successful, id)
             /\ batch'.Failed = batch.Failed
             /\ batch'.pc = "items" /\ batch'.idx = batch.idx + 1
             /\ \/ history' = history
                \/ /\ DOMAIN history' = DOMAIN history \cup {id}
                   /\ \A other \in DOMAIN history \ {id} : history'[other] = history[other]
                   /\ LET before == IF id \in DOMAIN history THEN history[id] ELSE <<>>
                          entry == history'[id][Len(history'[id])]
                      IN /\ Len(history'[id]) = Len(before) + 1
                         /\ SubSeq(history'[id], 1, Len(before)) = before
                         /\ entry.BatchID = batch.BatchID
                         /\ entry.batch_size = batch.totalJobs
                         /\ entry.Action = BatchActionStart
      ]_vars

\* a finished start of two jobs: the entry of the first job was not taken,
\* the entry of the second was, and both jobs are successful
C27_Witness ==
    /\ batch.pc = "done"
    /\ batch.op.Action = BatchActionStart
    /\ batch.Successful = <<JobUUID(1), JobUUID(2)>>
    /\ batch.Failed = <<>>
    /\ JobUUID(1) \notin DOMAIN history
    /\ JobUUID(2) \in DOMAIN history
    /\ Len(history[JobUUID(2)]) = 1
    /\ history[JobUUID(2)][1].BatchID = batch.BatchID
    /\ history[JobUUID(2)][1].batch_size = 2

\* C28: an invocation of ProcessBatch takes its batch ID once, an ID no
\* earlier invocation had, and keeps it to its end; the history entries the
\* invocation writes carry that ID, the result is stored under that ID with
\* that ID in it, and that ID is the one returned.
C28_OneBatchID ==
    [][/\ (batch.pc = "idle" /\ batch'.pc # "idle") =>
             /\ batch'.BatchID # ""
             /\ batch'.BatchID \notin DOMAIN batches
             /\ batch'.BatchID \notin {BatchUUID(n) : n \in 1..batchSeq}
             /\ \A j \in DOMAIN history : \A k \in 1..Len(history[j]) :
                   history[j][k].BatchID # batch'.BatchID
       /\ (batch.pc # "idle" /\ batch'.pc # "idle") => batch'.BatchID = batch.BatchID
       /\ \A j \in DOMAIN history' :
             \A k \in 1..Len(history'[j]) :
                (j \notin DOMAIN history \/ k > Len(history[j])) =>
                    history'[j][k].BatchID = batch.BatchID
       /\ \A id \in DOMAIN batches' \ DOMAIN batches :
             /\ id = batch.BatchID
             /\ UnmarshalBatchResult(batches'[id]).BatchID = batch.BatchID
             /\ resp'.kind = "batch" /\ resp'.err = "" /\ resp'.id = batch.BatchID
      ]_vars

\* two starts, one after the other: each job's history entry carries the ID
\* of its own batch, and each result is stored under its own ID
C28_Witness ==
    /\ batch.pc = "done"
    /\ batch.BatchID = BatchUUID(2)
    /\ resp.id = BatchUUID(2)
    /\ DOMAIN batches = {BatchUUID(1), BatchUUID(2)}
    /\ JobUUID(1) \in DOMAIN history /\ history[JobUUID(1)][1].BatchID = BatchUUID(1)
    /\ JobUUID(2) \in DOMAIN history /\ history[JobUUID(2)][1].BatchID = BatchUUID(2)
    /\ StoredBatchResult(BatchUUID(1)).BatchID = BatchUUID(1)
    /\ StoredBatchResult(BatchUUID(2)).BatchID = BatchUUID(2)

\* C29: in either job store, Create of a job whose ID is already stored
\* returns an error and leaves the stored record as it was.
C29_DuplicateCreateFails ==
    [][(repoOut' # repoOut /\ repoOut'.op = "Create" /\ repoOut'.before # NoJob) =>
          /\ repoOut'.err # NoErr
          /\ jobs' = jobs
          /\ redis' = redis
      ]_vars

\* C30: in either job store, AddJobHistory puts the entry at the end of that
\* job's history and changes no other job's history; no other call changes a
\* history; GetJobHistory returns the job's entries as appended, in the
\* order of their appending.
C30_HistoryAppendOnly ==
    [][LET mem(h, id) == MemGetJobHistory(h, id).entries
           red(r, id) == RedisGetJobHistory(r.history, id, TRUE).entries
           added(store) == /\ repoOut'.op = "AddJobHistory"
                           /\ repoOut'.store = store
                           /\ repoOut'.err = NoErr
                           /\ repoOut' # repoOut \/ history' # history \/ redis' # redis
       IN /\ \A id \in {JobUUID(1), JobUUID(2)} :
                /\ IF added("memory") /\ repoOut'.jobID = id
                   THEN mem(history', id) = Append(mem(history, id), repoOut'.entry)
                   ELSE mem(history', id) = mem(history, id)
                /\ IF added("redis") /\ repoOut'.jobID = id
                   THEN red(redis', id) = Append(red(redis, id), repoOut'.entry)
                   ELSE red(redis', id) = red(redis, id)
          /\ (repoOut'.op = "GetJobHistory" /\ repoOut'.err = NoErr) =>
                repoOut'.entries = IF repoOut'.store = "memory"
                                   THEN mem(history', repoOut'.jobID)
                                   ELSE red(redis', repoOut'.jobID)
      ]_vars

\* the Redis store returns a history of two entries, the one of no batch
\* appended after the one of a batch, while the other job has a history too
C30_Witness ==
    /\ repoOut.op = "GetJobHistory"
    /\ repoOut.store = "redis"
    /\ repoOut.err = NoErr
    /\ repoOut.jobID = JobUUID(1)
    /\ Len(repoOut.entries) = 2
    /\ repoOut.entries[1].BatchID = BatchUUID(1)
    /\ repoOut.entries[2].BatchID = ""
    /\ JobUUID(2) \in DOMAIN redis.history

\* C31: in the in-memory store a writer is inside alone, readers may be
\* inside together, every call acts on the store as it was when the call got
\* the lock (nothing changes under it before its own write, and its result is
\* the one that store gives), and of the concurrent Create memCalls for one job
\* ID made on a store that never loses the job exactly one succeeds.
C31_ExclusiveWrites ==
    LET inside == {g \in Goroutines : memCalls[g].pc \in {"check", "write", "range", "unlock"}}
        writers == {g \in inside : IsWrite(memCalls[g].op)}
        returned == {g \in Goroutines : memCalls[g].pc \in {"unlock", "done"}}
        creates == {g \in Goroutines : memCalls[g].op = "Create"}
    IN /\ Cardinality(writers) <= 1
       /\ writers # {} => inside = writers
       /\ \A g \in inside : memCalls[g].pc \in {"check", "write", "range"} => jobs = memCalls[g].snap
       /\ \A g \in returned :
             LET c == memCalls[g]
                 was == c.jobID \in DOMAIN c.snap
             IN CASE c.op = "Create" -> (c.err = NoErr) = ~was
                  [] c.op \in {"Update", "Delete"} -> (c.err = NoErr) = was
                  [] c.op = "Get" -> c.err = NoErr /\ c.got = MemGet(c.snap, c.jobID)
                  [] OTHER -> /\ c.err = NoErr
                              /\ Len(c.list) = Cardinality(DOMAIN c.snap)
                              /\ \A id \in DOMAIN c.snap :
                                    \E i \in 1..Len(c.list) : c.list[i] = c.snap[id]
       /\ ((\A g \in Goroutines : memCalls[g].pc = "done" /\ memCalls[g].op # "Delete")
              /\ creates # {})
             => Cardinality({g \in creates : memCalls[g].err = NoErr}) = 1

\* every goroutine has made a Create call for one ID, with different jobs,
\* and all have returned
C31_Witness ==
    /\ \A g \in Goroutines : memCalls[g].pc = "done" /\ memCalls[g].op = "Create"
    /\ Cardinality({memCalls[g].job : g \in Goroutines}) > 1
    /\ Cardinality({g \in Goroutines : memCalls[g].err = NoErr}) = 1

\* C32: IsRetryableError is true exactly for the codes mapped to a timeout,
\* unavailable or rate-limit status, which are timeout and rate_limit; it is
\* false for every validation, state and not-found code, for every other code
\* of the map and for a code the map does not hold.
C32_RetryableCodes ==
    repoOut.op = "IsRetryableError" =>
        /\ repoOut.retryable = (repoOut.code \in {ErrCodeTimeout, ErrCodeRateLimit})
        /\ repoOut.code \in {ErrCodeValidation, ErrCodeInvalidFormat, ErrCodeInvalidAction,
                             ErrCodeBatchOperation, ErrCodeJobState, ErrCodeInvalidState,
                             ErrCodeNotFound, ErrCodeJobNotFound, ErrCodeBatchNotFound}
              => ~repoOut.retryable
        /\ repoOut.code \notin DOMAIN ErrorStatusMap => ~repoOut.retryable

\* the question was asked for rate_limit, after a request was answered
C32_Witness ==
    /\ repoOut.op = "IsRetryableError"
    /\ repoOut.code = ErrCodeRateLimit
    /\ repoOut.retryable
    /\ resp.kind # "none"

\* C33: a ListJobs call with one sort field whose name and order are valid
\* up to letter case is accepted and returns what the call with the
\* lower-case tokens returns; the jobs come ordered by the field's value,
\* compared byte-wise after lower-casing for status and source_url unless
\* case_sensitive is set, and byte-wise as stored for id whatever the flag.
C33_CaseRules ==
    (listOut.called /\ Len(listOut.fields) = 1) =>
        LET f == listOut.fields[1]
            lowerCase(t) == CASE t = "Status" -> "status"
                              [] t = "DESC" -> "desc"
                              [] OTHER -> t
            norm == <<[Field |-> lowerCase(f.Field), Order |-> lowerCase(f.Order),
                       CaseSensitive |-> f.CaseSensitive]>>
            value(j) == IF lowerCase(f.Field) = "status" THEN j.Status ELSE j.SourceURL
            key(j) == IF lowerCase(f.Field) = "id" THEN Bytes(j.ID)
                      ELSE IF f.CaseSensitive THEN Bytes(value(j))
                      ELSE ToLower(Bytes(value(j)))
            dir == IF lowerCase(f.Order) = "desc" THEN 0 - 1 ELSE 1
            out == listOut.jobs
        IN (lowerCase(f.Field) \in {"status", "source_url", "id"}
              /\ lowerCase(f.Order) \in {"", "asc", "desc"}) =>
              /\ listOut.err = NoErr
              /\ Len(out) = Len(listOut.listed)
              /\ out = ListJobs(listOut.listed, listOut.limit, listOut.offset,
                                listOut.filter, norm).jobs
              /\ \A i, j \in 1..Len(out) :
                    i < j => dir * CompareBytes(key(out[i]), key(out[j])) <= 0

\* sorted by id with case_sensitive unset: the store returned j1 before J2 and
\* the call returns J2 first
C33_Witness ==
    /\ listOut.called
    /\ listOut.fields = <<SortField("id", "", FALSE)>>
    /\ Len(listOut.listed) = 2
    /\ listOut.listed[1].ID = "j1"
    /\ listOut.listed[2].ID = "J2"
    /\ listOut.err = NoErr
    /\ listOut.jobs[1].ID = "J2"

\* C34: a ListJobs call given more than MaxSortFields sort fields does not
\* take the list as given: it fails, or it orders the jobs by the first
\* MaxSortFields fields only.
C34_AtMostMaxSortFields ==
    (listOut.called /\ Len(listOut.fields) > MaxSortFields) =>
        \/ listOut.err # NoErr
        \/ listOut.jobs = ListJobs(listOut.listed, listOut.limit, listOut.offset,
                                   listOut.filter,
                                   SubSeq(listOut.fields, 1, MaxSortFields)).jobs

\* C35: the summary a GetJobsStatusSummary call returns agrees with the store
\* at the call: each status count is the number of stored jobs in that
\* status and the counts add up to total, total_completed and total_failed
\* are the COMPLETED and FAILED counts, jobs_last_24h and jobs_last_week are
\* the numbers of jobs created less than a day and less than a week before
\* now, so jobs_last_24h <= jobs_last_week <= total; the call changes no job.
C35_SummaryConsistent ==
    [][(repoOut.op = "none" /\ repoOut'.op = "GetJobsStatusSummary") =>
          LET sm == repoOut'.summary
              st == sm.statistics
              count(S) == Cardinality({id \in DOMAIN jobs : jobs[id].Status \in S})
              younger(d) == Cardinality({id \in DOMAIN jobs : now - jobs[id].CreatedAt < d})
          IN /\ jobs' = jobs
             /\ repoOut'.err = NoErr
             /\ sm.total = Cardinality(DOMAIN jobs)
             /\ \A status \in DOMAIN sm.by_status : sm.by_status[status] = count({status})
             /\ Statuses \subseteq DOMAIN sm.by_status
             /\ count(DOMAIN sm.by_status) = sm.total
             /\ st.total_completed = count({StatusCompleted})
             /\ st.total_failed = count({StatusFailed})
             /\ st.jobs_last_24h = younger(Day)
             /\ st.jobs_last_week = younger(Week)
             /\ st.jobs_last_24h <= st.jobs_last_week
             /\ st.jobs_last_week <= sm.total
      ]_vars

\* the summary of two jobs in the statuses COMPLETED and FAILED, one created
\* a day ago and the other more than a week ago
C35_Witness ==
    /\ repoOut.op = "GetJobsStatusSummary"
    /\ repoOut.summary.total = 2
    /\ repoOut.summary.statistics.total_completed = 1
    /\ repoOut.summary.statistics.total_failed = 1
    /\ repoOut.summary.statistics.jobs_last_24h = 0
    /\ repoOut.summary.statistics.jobs_last_week = 1

\* C36: every item of a batch that is not a start is handled in the order
\* fetch, check, operation: the fetch is the first call; a job that is not in
\* the store fails the item with no check and no operation; a job whose
\* status the action does not allow fails the item with the state error's
\* message after the check, the operation not called; the operation is called
\* last, and only for a status the action allows.
C36_FetchCheckOperate ==
    (batch.pc # "idle" /\ batch.op.Action # BatchActionStart) =>
        \A k \in 1..Len(batch.items) :
            LET it == batch.items[k]
                a == batch.op.Action
                check == CASE a = BatchActionPause -> <<"CanPause">>
                           [] a = BatchActionResume -> <<"CanResume">>
                           [] a = BatchActionStop -> <<"CanStop">>
                           [] OTHER -> <<>>
                oper == CASE a = BatchActionPause -> <<"PauseJob">>
                          [] a = BatchActionResume -> <<"ResumeJob">>
                          [] a = BatchActionStop -> <<"StopJob">>
                          [] OTHER -> <<"StartEncryption">>
                legal == CASE a = BatchActionPause -> it.seen = StatusProgress
                           [] a = BatchActionResume -> it.seen = StatusPaused
                           [] a = BatchActionStop -> it.seen \notin {StatusCompleted, StatusFailed}
                           [] OTHER -> it.seen = StatusFailed
                failedWith(text) == \E i \in 1..Len(batch.Failed) :
                                       /\ batch.Failed[i].JobID = it.item
                                       /\ batch.Failed[i].Error = text
            IN IF it.seen = "nil"
               THEN /\ it.calls = <<"GetJobStatus">>
                    /\ failedWith(ErrorString(it.err))
               ELSE IF ~legal
               THEN /\ it.calls = <<"GetJobStatus">> \o check
                    /\ failedWith(ErrorString(it.err))
                    /\ a # BatchActionRetry =>
                          /\ ErrorsAsJobStateError(it.err) # NoErr
                          /\ LET state == ErrorString(ErrorsAsJobStateError(it.err))
                                 text == ErrorString(it.err)
                             IN SubSeq(text, Len(text) - Len(state) + 1, Len(text)) = state
               ELSE it.calls = <<"GetJobStatus">> \o check \o oper

\* a pause of three jobs: one not in the store, one the check rejects, one it allows
C36_Witness ==
    /\ batch.pc # "idle"
    /\ batch.op.Action = BatchActionPause
    /\ Len(batch.items) = 3
    /\ \E k \in 1..3 : batch.items[k].seen = "nil"
    /\ \E k \in 1..3 : batch.items[k].calls = <<"GetJobStatus", "CanPause">>
    /\ \E k \in 1..3 : batch.items[k].calls = <<"GetJobStatus", "CanPause", "PauseJob">>

\* C37: the check of a batch item is made on the status the store holds when
\* the item is processed: the status the item saw is the stored one at that
\* step, whatever an earlier item of the batch saw for the same job ID, and
\* the item succeeds iff the action is allowed in that status.
C37_FreshStatus ==
    [][(batch.pc = "items" /\ batch.op.Action # BatchActionStart
           /\ batch'.idx = batch.idx + 1) =>
          LET id == batch.op.JobIDs[batch.idx]
              rec == batch'.items[batch.idx]
              a == batch.op.Action
              stored == IF id \in DOMAIN jobs THEN jobs[id].Status ELSE "nil"
              legal == CASE a = BatchActionPause -> stored = StatusProgress
                         [] a = BatchActionResume -> stored = StatusPaused
                         [] a = BatchActionStop ->
                               stored \in {StatusPending, StatusProgress, StatusPaused}
                         [] OTHER -> stored = StatusFailed
          IN /\ rec.seen = stored
             /\ rec.ok <=> legal]_vars

\* a pause of one job ID given twice: the first item saw the job in progress
\* and succeeded, the second saw it paused and failed
C37_Witness ==
    /\ batch.op.Action = BatchActionPause
    /\ Len(batch.items) >= 2
    /\ batch.items[1].item = batch.items[2].item
    /\ batch.items[1].seen = StatusProgress
    /\ batch.items[1].ok
    /\ batch.items[2].seen = StatusPaused
    /\ ~batch.items[2].ok

\* C38: the batch store changes only at the end of an invocation that passed
\* validation, when every item has been processed, and by one new result,
\* stored under the invocation's batch ID; an invocation that ends without a
\* store error has stored its result; every stored result has
\* summary.total_jobs >= 1.
C38_StoredOnceNonEmpty ==
    [][/\ batches' # batches =>
             /\ batch.pc = "items" /\ batch'.pc = "done"
             /\ Len(validateBatchOperation(batch.op)) = 0
             /\ Len(batch.items) = batch.totalJobs
             /\ Len(batch.Successful) + Len(batch.Failed) = batch.totalJobs
             /\ batch.BatchID \notin DOMAIN batches
             /\ DOMAIN batches' = DOMAIN batches \cup {batch.BatchID}
             /\ \A id \in DOMAIN batches : batches'[id] = batches[id]
       /\ (batch.pc = "items" /\ batch'.pc = "done" /\ resp'.err = "") =>
             batch.BatchID \in DOMAIN batches' \ DOMAIN batches
       /\ \A id \in DOMAIN batches' :
             GetBatchResult(batches', id, TRUE).result.Summary.TotalJobs >= 1
      ]_vars

\* a batch of three items has ended and its result, with total_jobs = 3, is
\* the one stored result
C38_Witness ==
    /\ batch.pc = "done"
    /\ resp.err = ""
    /\ DOMAIN batches = {batch.BatchID}
    /\ Len(batch.items) = 3
    /\ StoredBatchResult(batch.BatchID).Summary.TotalJobs = 3

\* C39: a status, pause, resume or stop request that names a job ID which is
\* not in the store is answered with 404 and the code not_found.
C39_AbsentJobIsNotFound ==
    (resp.kind \in {"status", "pause", "resume", "stop"} /\ resp.id # ""
        /\ resp.id \notin DOMAIN jobs) =>
        /\ resp.code = StatusNotFound
        /\ resp.err = ErrCodeNotFound

\* C40: a batch operation that validateBatchOperation accepts and that is
\* submitted through BatchHandler.ProcessBatch is dispatched: the invocation
\* of BatchService.ProcessBatch begins with that operation.
C40_ValidOperationDispatched ==
    [][\A op \in HandlerOps :
          (Len(validateBatchOperation(op)) = 0 /\ BatchHandlerProcessBatch(op)) =>
              /\ batch'.pc = "items"
              /\ batch'.op = op]_vars

====
